---- MODULE Spec2Model ----
(***************************************************************************)
(* Model of the answer pipeline of the migration bot: the handlers of      *)
(* src/bot.py (echo_message, process_country_request, the payment and      *)
(* admin boost handlers), the storage functions of src/logic/db.py and the *)
(* three-stage pipeline ask_llm of src/logic/ai.py.                        *)
(*                                                                         *)
(* Strings are sequences of tokens.  A token is one character (" ", "\n",  *)
(* ".", "<", a digit, ...) or an atomic run of characters that the code    *)
(* only ever looks at as a whole (a word of known length, a marker         *)
(* substring, a complete markup tag, a URL scheme).  TokLen gives the      *)
(* number of characters of a token.  Cyrillic literals of the source are   *)
(* written in Latin transliteration.                                       *)
(*                                                                         *)
(* Time is a natural number of clock units; UnitsPerDay units make one     *)
(* UTC calendar day.  An Optional value is the empty set (None) or a       *)
(* singleton.                                                              *)
(***************************************************************************)
EXTENDS Integers, Sequences, FiniteSets, TLC

VARIABLES
    now,          \* the clock: func.now() of the database, datetime.now(timezone.utc) of the bot
    events,       \* handler level: the environment events so far (a clock advance, a
                  \* payment, an admin command, a call that raised)
    ticks,        \* storage level: how many times the clock advanced
    boosts,       \* storage level: how many boost extensions were made
    user_busy,    \* bot.py user_busy: Dict[int, bool]
    boost_until,  \* users.boost_until of the users table, one row per existing user
    messages,     \* the messages table: a bag of rows [user, role, mode, created_at]
    cache,        \* the country_info_cache table, keyed by country_key
    written,      \* history: per key, the last successful put not followed by a delete:
                  \* its answer, its time, and who made it
    req,          \* the handler invocations (asyncio tasks) and their local variables
    last,         \* the last storage call made directly (storage-level specification)
    llm           \* one ask_llm run (pipeline-level specification)

vars == <<now, events, ticks, boosts, user_busy, boost_until, messages, cache, written, req, last, llm>>

----------------------------------------------------------------------------
(* Bounds of the model *)

\* number of handler invocations in one behaviour
NReq == 2
\* number of environment events in one behaviour of the handlers
MaxEvents == 1
\* number of clock advances in one behaviour of the storage level
MaxTicks == 2
\* number of boost extensions in one behaviour of the storage level
MaxBoosts == 2
\* greatest length of a list handed to a normalizer
MaxLen == 2
\* number of rows of the messages table at the message level
MaxMsgs == 3
\* greatest number of tokens of a short text handed to send_long
MaxSendLen == 3
\* greatest number of messages of a history list
MaxHist == 5
\* greatest number of messages sent while the profile is filled in
MaxProfileMsgs == 7
\* clock units per UTC calendar day
UnitsPerDay == 2

----------------------------------------------------------------------------
(* Program constants *)

CHAT_DAILY_LIMIT == 20
COUNTRY_DAILY_LIMIT == 10
CHAT_DAILY_LIMIT_BOOST == 30
COUNTRY_DAILY_LIMIT_BOOST == 20
BOOST_DAYS == 7
COUNTRY_CACHE_TTL_DAYS == 45
\* logic/ai.py, _retry: total, connect, read, status_forcelist
RETRY_TOTAL == 3
RETRY_CONNECT == 3
RETRY_READ == 3
STATUS_FORCELIST == {"429", "500", "502", "503", "504"}
MAX_MESSAGES_PER_USER == 200
\* bot.py, send_long: limit
SEND_LIMIT == 3900
\* logic/ai.py: the defaults of HISTORY_ITEM_MAX_CHARS and HISTORY_TOTAL_MAX_CHARS
HISTORY_ITEM_MAX_CHARS == 800
HISTORY_TOTAL_MAX_CHARS == 3000
\* is_country_answer_cacheable: minimum plain length, list markers, topic markers
MIN_PLAIN_LEN == 500
MIN_NUMS == 6
MIN_MARKERS == 3

Users == {"ann", "bob"}
ADMIN_IDS == {"bob"}

None == {}
Some(x) == {x}
The(o) == CHOOSE x \in o : TRUE

Max(a, b) == IF a >= b THEN a ELSE b
Days(d) == d * UnitsPerDay

----------------------------------------------------------------------------
(* Strings as token sequences *)

Digits18 == {"1", "2", "3", "4", "5", "6", "7", "8"}
Digits == Digits18 \cup {"0", "9"}
Spaces == {" ", "\n"}

\* markup tags that are one token: each is matched whole by <[^>]+>
TagToks == {"<b>", "</b>", "<i>", "</i>", "<a href=u>", "</a>"}

\* is_country_answer_cacheable: tuple bad (lower case)
BadMarkers == {"oshibka", "httpsconnectionpool", "ssleoferror", "unexpected_eof",
               "traceback", "max retries exceeded", "telegrambadrequest"}
\* is_country_answer_cacheable: tuple markers (lower case)
TopicMarkers == {"osnovnye sposoby", "tipy viz", "rabot", "ucheb", "stoimost",
                 "oficialn", "disklejmer"}

\* str.lower() on one token
LowerTok(t) ==
    CASE t = "Oshibka" -> "oshibka"
      [] t = "OSHIBKA" -> "oshibka"
      [] t = "Traceback" -> "traceback"
      [] t = "Osnovnye sposoby" -> "osnovnye sposoby"
      [] t = "Rabot" -> "rabot"
      [] t = "Ucheb" -> "ucheb"
      [] t = "Stoimost" -> "stoimost"
      [] t = "Oficialn" -> "oficialn"
      [] t = "Disklejmer" -> "disklejmer"
      [] t = "Germaniya" -> "germaniya"
      [] t = "GERMANIYA" -> "germaniya"
      [] t = "Franciya" -> "franciya"
      [] t = "HTTP://" -> "http://"
      [] t = "HTTPS://" -> "https://"
      [] OTHER -> t

\* number of characters of a token
TokLen(t) ==
    CASE t \in {"W10", "w10"} -> 10
      [] t = "W40" -> 40
      [] t = "W60" -> 60
      [] t = "W100" -> 100
      [] t = "W500" -> 500
      [] LowerTok(t) = "oshibka" -> 6
      [] LowerTok(t) = "traceback" -> 9
      [] LowerTok(t) = "osnovnye sposoby" -> 16
      [] LowerTok(t) \in {"rabot", "ucheb"} -> 5
      [] LowerTok(t) = "stoimost" -> 9
      [] LowerTok(t) = "oficialn" -> 9
      [] LowerTok(t) = "disklejmer" -> 10
      [] LowerTok(t) \in {"germaniya", "franciya"} -> 8
      [] LowerTok(t) = "http://" -> 7
      [] LowerTok(t) = "https://" -> 8
      [] t \in {"<b>", "<i>"} -> 3
      [] t \in {"</b>", "</i>", "</a>"} -> 4
      [] t = "<a href=u>" -> 12
      [] t \in {"&lt;", "&gt;"} -> 4
      [] t = "&amp;" -> 5
      [] t \in {"lt;", "gt;", "pre"} -> 3
      [] t \in {"amp;", "code"} -> 4
      [] t = "Polzovatel" -> 12
      [] t = "Assistent" -> 9
      [] t = "Kratkaya istoriya" -> 33
      [] OTHER -> 1

RECURSIVE StrLen(_)
\* len(s)
StrLen(s) ==
    IF s = <<>> THEN 0
    ELSE IF Len(s) = 1 THEN TokLen(s[1])
    ELSE LET h == Len(s) \div 2
         IN  StrLen(SubSeq(s, 1, h)) + StrLen(SubSeq(s, h + 1, Len(s)))

\* s.lower()
lower(s) == [i \in DOMAIN s |-> LowerTok(s[i])]

RECURSIVE lstrip(_)
lstrip(s) == IF s # <<>> /\ Head(s) \in Spaces THEN lstrip(Tail(s)) ELSE s

RECURSIVE rstrip(_)
rstrip(s) ==
    IF s # <<>> /\ s[Len(s)] \in Spaces THEN rstrip(SubSeq(s, 1, Len(s) - 1)) ELSE s

\* s.strip()
strip(s) == rstrip(lstrip(s))

\* x in s, for a substring x that is one token
Contains(s, x) == \E i \in DOMAIN s : s[i] = x

\* s.startswith(x), for a prefix x that is one token
StartsWith(s, x) == s # <<>> /\ Head(s) = x

----------------------------------------------------------------------------
(* bot.py: the quality gate of the country cache *)

\* the token ends with the character ">"
EndsTag(t) == t = ">" \/ t \in TagToks

\* the least element of a non-empty set of indices
MinOf(J) == CHOOSE j \in J : \A k \in J : j <= k

RECURSIVE FirstEndsTag(_, _)
\* the least index j >= i whose token ends with ">", or 0 when there is none
FirstEndsTag(s, i) ==
    IF i > Len(s) THEN 0 ELSE IF EndsTag(s[i]) THEN i ELSE FirstEndsTag(s, i + 1)

RECURSIVE FirstNotSpace(_, _)
\* the least index j >= i whose token is not whitespace, or 0 when there is none
FirstNotSpace(s, i) ==
    IF i > Len(s) THEN 0 ELSE IF s[i] \notin Spaces THEN i ELSE FirstNotSpace(s, i + 1)

\* the end (index after the match) of a match of <[^>]+> starting at i, or 0
TagMatchEnd(s, i) ==
    IF s[i] \in TagToks THEN i + 1
    ELSE IF s[i] = "<"
    THEN LET j == FirstEndsTag(s, i + 1)
         IN  IF j = 0 \/ (j = i + 1 /\ s[j] = ">") THEN 0 ELSE j + 1
    ELSE 0

RECURSIVE StripTagsFrom(_, _)
\* the text from index i on, without the matches of <[^>]+>, leftmost first
StripTagsFrom(s, i) ==
    LET M == {j \in i..Len(s) : TagMatchEnd(s, j) # 0}
    IN  IF M = {} THEN SubSeq(s, i, Len(s))
        ELSE SubSeq(s, i, MinOf(M) - 1) \o StripTagsFrom(s, TagMatchEnd(s, MinOf(M)))

\* re.sub(r"<[^>]+>", "", text)
StripTags(s) == StripTagsFrom(s, 1)

\* the end (index after the match) of a match of \s*[1-8]\.\s+ starting at q, or 0
NumMatchEnd(p, q) ==
    LET a == FirstNotSpace(p, q)
    IN  IF a # 0 /\ a + 2 <= Len(p) /\ p[a] \in Digits18 /\ p[a + 1] = "."
           /\ p[a + 2] \in Spaces
        THEN LET e == FirstNotSpace(p, a + 2)
             IN  IF e = 0 THEN Len(p) + 1 ELSE e
        ELSE 0

\* (?m)^ matches at q
LineStart(p, q) == q = 1 \/ p[q - 1] = "\n"

RECURSIVE CountNumsFrom(_, _)
\* the number of matches found from index pos on, leftmost first
CountNumsFrom(p, pos) ==
    LET M == {q \in pos..Len(p) : LineStart(p, q) /\ NumMatchEnd(p, q) # 0}
    IN  IF M = {} THEN 0 ELSE 1 + CountNumsFrom(p, NumMatchEnd(p, MinOf(M)))

\* len(re.findall(r"(?m)^\s*[1-8]\.\s+", plain))
CountNums(p) == CountNumsFrom(p, 1)

\* sum(1 for m in markers if m in plain.lower())
CountMarkers(p) == Cardinality({m \in TopicMarkers : Contains(lower(p), m)})

\* the definition of bot.py 164-182, which the later definition replaces (for texts
\* whose list numbers are 1 to 8)
is_country_answer_cacheable_first(text) ==
    IF text = <<>> THEN FALSE
    ELSE IF StartsWith(lower(strip(text)), "oshibka") THEN FALSE
    ELSE IF \E x \in {"httpsconnectionpool", "ssleoferror", "unexpected_eof", "traceback"} :
                Contains(lower(strip(text)), x) THEN FALSE
    ELSE IF CountNums(StripTags(text)) >= 8 THEN TRUE
    ELSE StrLen(strip(StripTags(text))) >= 800

\* the check of the error markers alone, without the checks of length and structure
is_country_answer_cacheable_unchecked(text) ==
    IF text = <<>> THEN FALSE
    ELSE ~\E x \in BadMarkers : Contains(lower(strip(text)), x)

is_country_answer_cacheable(text) ==
    IF text = <<>> THEN FALSE
    ELSE IF \E x \in BadMarkers : Contains(lower(strip(text)), x) THEN FALSE
    ELSE LET plain == StripTags(text)
         IN  IF StrLen(strip(plain)) < MIN_PLAIN_LEN THEN FALSE
             ELSE IF CountNums(plain) >= MIN_NUMS THEN TRUE
             ELSE CountMarkers(plain) >= MIN_MARKERS

----------------------------------------------------------------------------
(* logic/db.py: the storage functions, as functions of the table contents *)

\* func.date(func.timezone("UTC", t)): the UTC calendar day of a time
Date(t) == t \div UnitsPerDay

\* INTERVAL 'COUNTRY_CACHE_TTL_DAYS day'
TTL == Days(COUNTRY_CACHE_TTL_DAYS)

_normalize_country_key(raw) == lower(strip(raw))

\* the row is visible to get_cached_country_info at time t
Fresh(row, t) == row.created_at >= t - TTL

\* the sweep that also deletes the rows whose age equals the TTL
Sweep_inclusive(c, t) == [k \in {x \in DOMAIN c : ~(c[x].created_at <= t - TTL)} |-> c[k]]

\* DELETE ... WHERE created_at < now() - INTERVAL: the sweep of init_db and save_cached_country_info
Sweep(c, t) == [k \in {x \in DOMAIN c : ~(c[x].created_at < t - TTL)} |-> c[k]]

\* the read with created_at strictly later than now() - INTERVAL
get_cached_country_info_strict(c, country_key, t) ==
    LET key == _normalize_country_key(country_key)
    IN  IF key \in DOMAIN c /\ c[key].created_at > t - TTL THEN Some(c[key].answer)
        ELSE None

get_cached_country_info(c, country_key, t) ==
    LET key == _normalize_country_key(country_key)
    IN  IF key \in DOMAIN c /\ Fresh(c[key], t) THEN Some(c[key].answer) ELSE None

\* the write keyed by the query as typed instead of the normalized key
save_cached_country_info_rawkey(c, country_key, country_query, answer, t) ==
    LET row == [country_query |-> country_query, answer |-> answer, created_at |-> t]
        upserted == [k \in DOMAIN c \cup {country_query} |->
                        IF k = country_query THEN row ELSE c[k]]
    IN  Sweep(upserted, t)

\* the write without the DELETE of old rows
save_cached_country_info_nosweep(c, country_key, country_query, answer, t) ==
    LET key == _normalize_country_key(country_key)
        row == [country_query |-> country_query, answer |-> answer, created_at |-> t]
    IN  [k \in DOMAIN c \cup {key} |-> IF k = key THEN row ELSE c[k]]

save_cached_country_info(c, country_key, country_query, answer, t) ==
    LET key == _normalize_country_key(country_key)
        row == [country_query |-> country_query, answer |-> answer, created_at |-> t]
        upserted == [k \in DOMAIN c \cup {key} |-> IF k = key THEN row ELSE c[k]]
    IN  Sweep(upserted, t)

delete_cached_country_info(c, country_key) ==
    LET key == _normalize_country_key(country_key)
    IN  [k \in DOMAIN c \ {key} |-> c[k]]

\* one more copy of a row in a bag of rows
BagAdd(b, row) ==
    IF row \in DOMAIN b THEN [b EXCEPT ![row] = @ + 1]
    ELSE [x \in DOMAIN b \cup {row} |-> IF x = row THEN 1 ELSE b[x]]

RECURSIVE BagCount(_, _)
\* the number of rows of the bag that lie in the set S
BagCount(b, S) ==
    IF S = {} THEN 0
    ELSE LET x == CHOOSE y \in S : TRUE IN b[x] + BagCount(b, S \ {x})

\* the rows of the active dialog of a user and a mode
DialogRows(m, tg_user_id, mode) == {x \in DOMAIN m : x.user = tg_user_id /\ x.mode = mode}

\* one copy less of a row in a bag of rows
BagRemove(b, row) ==
    IF b[row] > 1 THEN [b EXCEPT ![row] = @ - 1]
    ELSE [x \in DOMAIN b \ {row} |-> b[x]]

RECURSIVE TrimDialog(_, _, _)
\* DELETE the rows of the dialog beyond the MAX_MESSAGES_PER_USER newest
TrimDialog(m, tg_user_id, mode) ==
    LET rows == DialogRows(m, tg_user_id, mode)
    IN  IF BagCount(m, rows) <= MAX_MESSAGES_PER_USER THEN m
        ELSE LET oldest == CHOOSE x \in rows : \A y \in rows : x.created_at <= y.created_at
             IN  TrimDialog(BagRemove(m, oldest), tg_user_id, mode)

\* INSERT INTO messages: created_at is the server default now(); then the trim
save_message(m, tg_user_id, role, mode, t) ==
    TrimDialog(BagAdd(m, [user |-> tg_user_id, role |-> role, mode |-> mode,
                          created_at |-> t]),
               tg_user_id, mode)

\* the count without the condition on the mode
get_daily_user_message_count_any_mode(m, tg_user_id, mode, t) ==
    BagCount(m, {x \in DOMAIN m : /\ x.user = tg_user_id
                                   /\ x.role = "user"
                                   /\ Date(x.created_at) = Date(t)})

get_daily_user_message_count(m, tg_user_id, mode, t) ==
    BagCount(m, {x \in DOMAIN m : /\ x.user = tg_user_id
                                   /\ x.role = "user"
                                   /\ x.mode = mode
                                   /\ Date(x.created_at) = Date(t)})

\* INSERT ... ON CONFLICT DO UPDATE on users: the row exists afterwards, boost_until kept
ensure_user(b, tg_user_id) ==
    IF tg_user_id \in DOMAIN b THEN b
    ELSE [u \in DOMAIN b \cup {tg_user_id} |-> IF u = tg_user_id THEN None ELSE b[u]]

get_user_boost_until(b, tg_user_id) ==
    IF tg_user_id \in DOMAIN b THEN b[tg_user_id] ELSE None

\* the extension counted from the stored boost_until even when it has passed
add_boost_days_from_stored(b, tg_user_id, days, t) ==
    IF tg_user_id \notin DOMAIN b THEN b
    ELSE [b EXCEPT ![tg_user_id] =
            Some((IF @ = None THEN t ELSE The(@)) + Days(days))]

\* UPDATE users SET boost_until = greatest(coalesce(boost_until, now()), now()) + INTERVAL
add_boost_days(b, tg_user_id, days, t) ==
    IF tg_user_id \notin DOMAIN b THEN b
    ELSE [b EXCEPT ![tg_user_id] =
            Some(Max(IF @ = None THEN t ELSE The(@), t) + Days(days))]

admin_clear_boost(b, tg_user_id) ==
    IF tg_user_id \notin DOMAIN b THEN b ELSE [b EXCEPT ![tg_user_id] = None]

----------------------------------------------------------------------------
(* bot.py: effective limits *)

is_admin(user_id) == user_id \in ADMIN_IDS

\* the limits with boost_until >= now counted as boosted
get_effective_limits_inclusive(b, user_id, ok, t) ==
    LET boost == IF ok THEN get_user_boost_until(b, user_id) ELSE None
        boosted == boost # None /\ The(boost) >= t
    IN  [chat |-> IF boosted THEN CHAT_DAILY_LIMIT_BOOST ELSE CHAT_DAILY_LIMIT,
         country |-> IF boosted THEN COUNTRY_DAILY_LIMIT_BOOST ELSE COUNTRY_DAILY_LIMIT,
         boost_until |-> boost]

\* ok: the read of boost_until did not raise
get_effective_limits(b, user_id, ok, t) ==
    LET boost == IF ok THEN get_user_boost_until(b, user_id) ELSE None
        boosted == boost # None /\ The(boost) > t
    IN  [chat |-> IF boosted THEN CHAT_DAILY_LIMIT_BOOST ELSE CHAT_DAILY_LIMIT,
         country |-> IF boosted THEN COUNTRY_DAILY_LIMIT_BOOST ELSE COUNTRY_DAILY_LIMIT,
         boost_until |-> boost]

----------------------------------------------------------------------------
(* logic/ai.py: text helpers *)

RECURSIVE RunEnd(_, _, _)
\* the index after the maximal run of tokens of S that starts at i
RunEnd(s, i, S) ==
    IF i > Len(s) \/ s[i] \notin S THEN i ELSE RunEnd(s, i + 1, S)

\* the end (index after the match) of a match of \s*\[\d+\] starting at i, or 0
CiteMatchEnd(s, i) ==
    LET a == RunEnd(s, i, Spaces)
        d == RunEnd(s, a + 1, Digits)
    IN  IF a <= Len(s) /\ s[a] = "[" /\ d > a + 1 /\ d <= Len(s) /\ s[d] = "]"
        THEN d + 1 ELSE 0

RECURSIVE DropCites(_, _)
\* re.sub(r"\s*\[\d+\]", "", s), from index i on
DropCites(s, i) ==
    LET M == {j \in i..Len(s) : CiteMatchEnd(s, j) # 0}
    IN  IF M = {} THEN SubSeq(s, i, Len(s))
        ELSE SubSeq(s, i, MinOf(M) - 1) \o DropCites(s, CiteMatchEnd(s, MinOf(M)))

RECURSIVE SquashBlanks(_, _)
\* re.sub(r"[ \t]{2,}", " ", s), from index i on
SquashBlanks(s, i) ==
    LET M == {j \in i..Len(s) : s[j] = " " /\ RunEnd(s, j, {" "}) >= j + 2}
    IN  IF M = {} THEN SubSeq(s, i, Len(s))
        ELSE SubSeq(s, i, MinOf(M)) \o SquashBlanks(s, RunEnd(s, MinOf(M), {" "}))

RECURSIVE SquashNewlines(_, _)
\* re.sub(r"\n{3,}", "\n\n", s), from index i on
SquashNewlines(s, i) ==
    LET M == {j \in i..Len(s) : s[j] = "\n" /\ RunEnd(s, j, {"\n"}) >= j + 3}
    IN  IF M = {} THEN SubSeq(s, i, Len(s))
        ELSE SubSeq(s, i, MinOf(M) + 1) \o SquashNewlines(s, RunEnd(s, MinOf(M), {"\n"}))

Punct == {",", ".", "!", "?"}

\* a match of [ \t]+([,.!?]) starts at j
PunctMatch(s, j) ==
    s[j] = " " /\ RunEnd(s, j, {" "}) <= Len(s) /\ s[RunEnd(s, j, {" "})] \in Punct

RECURSIVE TightenPunct(_, _)
\* re.sub(r"[ \t]+([,.!?])", r"\1", s), from index i on
TightenPunct(s, i) ==
    LET M == {j \in i..Len(s) : PunctMatch(s, j)}
    IN  IF M = {} THEN SubSeq(s, i, Len(s))
        ELSE SubSeq(s, i, MinOf(M) - 1) \o TightenPunct(s, RunEnd(s, MinOf(M), {" "}))

_cleanup_text(text) ==
    IF text = <<>> THEN <<>>
    ELSE strip(TightenPunct(SquashNewlines(SquashBlanks(DropCites(text, 1), 1), 1), 1))

----------------------------------------------------------------------------
(* logic/ai.py: JSON values, as json.loads returns them *)

\* t: the Python type; b: truth value of a bool or number; s: the text of a string, or
\* what str() prints for a number; items: the entries of a list, or the values under
\* the keys "title" and "body" of a dict
JNull == [t |-> "null", b |-> FALSE, s |-> <<>>, items |-> <<>>]
JBool(b) == [t |-> "bool", b |-> b, s |-> <<>>, items |-> <<>>]
JNum(d) == [t |-> "num", b |-> d # "0", s |-> <<d>>, items |-> <<>>]
JStr(s) == [t |-> "str", b |-> FALSE, s |-> s, items |-> <<>>]
JList(items) == [t |-> "list", b |-> FALSE, s |-> <<>>, items |-> items]
JDict(title, body) == [t |-> "dict", b |-> TRUE, s |-> <<>>, items |-> <<title, body>>]

\* bool(v)
Truthy(v) ==
    CASE v.t = "str" -> v.s # <<>>
      [] v.t = "list" -> v.items # <<>>
      [] OTHER -> v.b

\* str(v or "")
StrOrEmpty(v) ==
    IF ~Truthy(v) THEN <<>>
    ELSE CASE v.t = "str" -> v.s
           [] v.t = "num" -> v.s
           [] v.t = "bool" -> <<"True">>
           [] OTHER -> <<"repr">>

ObjKeys == {"in_scope", "reply", "answer", "clarify", "sources", "sections"}

\* a parsed JSON object (a dict), from a function of some of the keys to values:
\* keys are the keys present, val[k] is obj.get(k), None (null) for an absent key
MkObj(f) == [keys |-> DOMAIN f,
             val |-> [k \in ObjKeys |-> IF k \in DOMAIN f THEN f[k] ELSE JNull]]

\* obj[k] = v on a copy
ObjSet(o, k, v) == [keys |-> o.keys \cup {k}, val |-> [o.val EXCEPT ![k] = v]]

\* the object {}
EmptyObj == [keys |-> {}, val |-> [k \in ObjKeys |-> JNull]]

\* _extract_json: the brace-delimited part of the text, None when there is none
_extract_json(text) ==
    IF text = <<>> THEN None
    ELSE LET s == strip(text)
             opens == {i \in DOMAIN s : s[i] = "{"}
             closes == {i \in DOMAIN s : s[i] = "}"}
         IN  IF s # <<>> /\ Head(s) = "{" /\ s[Len(s)] = "}" THEN Some(s)
             ELSE IF \E i \in opens : \E j \in closes : i < j
             THEN Some(strip(SubSeq(s, MinOf(opens),
                                    CHOOSE j \in closes : \A k \in closes : k <= j)))
             ELSE None

\* a model response: its text, and what json.loads makes of the brace-delimited part
\* of that text (None when json.loads raises)
Resp(text, loads) == [text |-> text, loads |-> loads]

_safe_json_loads(resp) ==
    IF _extract_json(resp.text) = None THEN None
    ELSE resp.loads

----------------------------------------------------------------------------
(* logic/ai.py: normalizers and the fallback renderer *)

StripSet == {"(", ")", "[", "]", "<", ">", ".", ",", ";"}

RECURSIVE lstripSet(_, _)
lstripSet(s, S) == IF s # <<>> /\ Head(s) \in S THEN lstripSet(Tail(s), S) ELSE s

RECURSIVE rstripSet(_, _)
rstripSet(s, S) ==
    IF s # <<>> /\ s[Len(s)] \in S THEN rstripSet(SubSeq(s, 1, Len(s) - 1), S) ELSE s

\* the URL test without re.IGNORECASE
IsHttpUrl_cased(u) == u # <<>> /\ Head(u) \in {"http://", "https://"}

\* re.match(r"^https?://", u, flags=re.IGNORECASE)
IsHttpUrl(u) == u # <<>> /\ LowerTok(Head(u)) \in {"http://", "https://"}

RECURSIVE NormSourcesSeq(_)
NormSourcesSeq(items) ==
    IF items = <<>> THEN <<>>
    ELSE LET x == Head(items)
             u == rstripSet(lstripSet(strip(x.s), StripSet), StripSet)
         IN  IF x.t = "str" /\ u # <<>> /\ IsHttpUrl(u)
             THEN <<u>> \o NormSourcesSeq(Tail(items))
             ELSE NormSourcesSeq(Tail(items))

\* the list of URL strings kept
_normalize_sources(sources) ==
    IF ~Truthy(sources) \/ sources.t # "list" THEN <<>> ELSE NormSourcesSeq(sources.items)

RECURSIVE NormListStrSeq(_)
NormListStrSeq(items) ==
    IF items = <<>> THEN <<>>
    ELSE LET v == Head(items)
         IN  IF v.t = "str" /\ strip(v.s) # <<>>
             THEN <<strip(v.s)>> \o NormListStrSeq(Tail(items))
             ELSE NormListStrSeq(Tail(items))

_normalize_list_str(x) ==
    IF ~Truthy(x) THEN <<>>
    ELSE IF x.t = "list" THEN NormListStrSeq(x.items)
    ELSE <<>>

RECURSIVE NormSectionsSeq(_)
NormSectionsSeq(items) ==
    IF items = <<>> THEN <<>>
    ELSE LET it == Head(items)
             title == IF it.t = "dict" THEN strip(StrOrEmpty(it.items[1])) ELSE <<>>
             body == IF it.t = "dict" THEN strip(StrOrEmpty(it.items[2])) ELSE <<>>
         IN  IF it.t # "dict" \/ (title = <<>> /\ body = <<>>)
             THEN NormSectionsSeq(Tail(items))
             ELSE <<[title |-> title, body |-> body]>> \o NormSectionsSeq(Tail(items))

\* the list of {title, body} dicts kept
_normalize_sections(x) ==
    IF ~Truthy(x) \/ x.t # "list" THEN <<>> ELSE NormSectionsSeq(x.items)

\* a Python list of str, and of {title, body} dicts, as values
ListOfStr(l) == JList([i \in DOMAIN l |-> JStr(l[i])])
ListOfSections(l) == JList([i \in DOMAIN l |-> JDict(JStr(l[i].title), JStr(l[i].body))])

\* seq[:n]
Take(seq, n) == SubSeq(seq, 1, IF Len(seq) < n THEN Len(seq) ELSE n)

RECURSIVE SectionParts(_)
SectionParts(sections) ==
    IF sections = <<>> THEN <<>>
    ELSE LET title == strip(Head(sections).title)
             body == strip(Head(sections).body)
         IN  (IF title # <<>> THEN <<title>> ELSE <<>>)
             \o (IF body # <<>> THEN <<body>> ELSE <<>>)
             \o SectionParts(Tail(sections))

RECURSIVE JoinParts(_)
\* "\n\n".join(parts)
JoinParts(parts) ==
    IF parts = <<>> THEN <<>>
    ELSE IF Len(parts) = 1 THEN Head(parts)
    ELSE Head(parts) \o <<"\n", "\n">> \o JoinParts(Tail(parts))

\* [p for p in parts if p.strip()]
NonBlank(parts) == SelectSeq(parts, LAMBDA q : strip(q) # <<>>)

\* the renderer with its list of parts kept from one call to the next
_fallback_render_shared(obj, mode) ==
    LET kept == IF "prev" \in DOMAIN last /\ last.prev # <<>> THEN <<last.prev>> ELSE <<>>
        sources == _normalize_sources(obj.val["sources"])
        sections == _normalize_sections(obj.val["sections"])
        answer == strip(StrOrEmpty(obj.val["answer"]))
        clarify == _normalize_list_str(obj.val["clarify"])
        bullets == [i \in DOMAIN Take(clarify, 2) |-> <<"*", " ">> \o clarify[i]]
    IN  IF mode = "country"
        THEN strip(JoinParts(NonBlank(
                kept \o SectionParts(sections)
                \o (IF sources # <<>> THEN <<<<"Istochniki", ":">>>> \o Take(sources, 10)
                    ELSE <<>>))))
        ELSE strip(JoinParts(NonBlank(
                kept \o (IF answer # <<>> THEN <<answer>> ELSE <<>>)
                \o (IF clarify # <<>> THEN <<<<"Utochnyu", ":">>>> \o bullets ELSE <<>>)
                \o (IF sources # <<>>
                    THEN <<<<"Oficialn", "ye istochniki", ":">>>> \o Take(sources, 10)
                    ELSE <<>>))))

\* the renderer without the [:2] and [:10] slices
_fallback_render_uncapped(obj, mode) ==
    LET sources == _normalize_sources(obj.val["sources"])
        sections == _normalize_sections(obj.val["sections"])
        answer == strip(StrOrEmpty(obj.val["answer"]))
        clarify == _normalize_list_str(obj.val["clarify"])
        bullets == [i \in DOMAIN clarify |-> <<"*", " ">> \o clarify[i]]
    IN  IF mode = "country"
        THEN strip(JoinParts(NonBlank(
                SectionParts(sections)
                \o (IF sources # <<>> THEN <<<<"Istochniki", ":">>>> \o sources
                    ELSE <<>>))))
        ELSE strip(JoinParts(NonBlank(
                (IF answer # <<>> THEN <<answer>> ELSE <<>>)
                \o (IF clarify # <<>> THEN <<<<"Utochnyu", ":">>>> \o bullets ELSE <<>>)
                \o (IF sources # <<>>
                    THEN <<<<"Oficialn", "ye istochniki", ":">>>> \o sources
                    ELSE <<>>))))

_fallback_render(obj, mode) ==
    LET sources == _normalize_sources(obj.val["sources"])
        sections == _normalize_sections(obj.val["sections"])
        answer == strip(StrOrEmpty(obj.val["answer"]))
        clarify == _normalize_list_str(obj.val["clarify"])
        bullets == [i \in DOMAIN Take(clarify, 2) |-> <<"*", " ">> \o clarify[i]]
    IN  IF mode = "country"
        THEN strip(JoinParts(NonBlank(
                SectionParts(sections)
                \o (IF sources # <<>> THEN <<<<"Istochniki", ":">>>> \o Take(sources, 10)
                    ELSE <<>>))))
        ELSE strip(JoinParts(NonBlank(
                (IF answer # <<>> THEN <<answer>> ELSE <<>>)
                \o (IF clarify # <<>> THEN <<<<"Utochnyu", ":">>>> \o bullets ELSE <<>>)
                \o (IF sources # <<>>
                    THEN <<<<"Oficialn", "ye istochniki", ":">>>> \o Take(sources, 10)
                    ELSE <<>>))))

----------------------------------------------------------------------------
(* logic/ai.py: the three stages and ask_llm *)

\* Configuration read from the environment at import:
\*   env.gate_enabled = DOMAIN_GATE_ENABLED, env.openai_key = bool(OPENAI_API_KEY),
\*   env.pplx_key = bool(PPLX_API_KEY)
\* What the services do when called:
\*   g  = [raises, resp]: the gate's responses.create raises, or returns resp
\*   p  = [kind, resp, body]: how the retrieval POST ends, the content of the answer,
\*        and the text of an error body or error message
\*   rr = [raises, text]: the renderer's responses.create raises, or returns text

\* fixed strings of the source
GATE_DEFAULT_COUNTRY == <<"Etot razdel", " ", "W100">>
GATE_DEFAULT_CHAT == <<"Ya specializiruyus", " ", "W100">>
ERR_NO_KEY == <<"Oshibka", ":", " ", "PPLX_API_KEY", " ", "W40">>
ERR_EMPTY == <<"Pustoj zapros", ".", " ", "W40">>
ERR_TIMEOUT == <<"Oshibka", ":", " ", "tajmaut", " ", "W60">>
ERR_CONNECT == <<"Sejchas ne udalos podklyuchitsya", " ", "W60">>

\* what a function hands back: a value (kind "ret") or an exception (kind "raise")
Ret(v) == [kind |-> "ret", v |-> v]
Raise == [kind |-> "raise", v |-> <<>>]

\* a gate verdict (in_scope, reply); None when the gate is absent
Verdict(in_scope, reply) == Some([in_scope |-> in_scope, reply |-> reply])

\* the gate's network call is made
GateCalled(user_message, env) ==
    env.gate_enabled /\ env.openai_key /\ strip(user_message) # <<>>

\* the try block returning the model's reply as it is, without the default string
GateTry_nodefault(mode, g) ==
    IF g.raises THEN Raise
    ELSE LET out == strip(g.resp.text)
             obj == _safe_json_loads(Resp(out, g.resp.loads))
         IN  IF obj = None \/ The(obj).keys = {} THEN Ret(None)
             ELSE LET in_scope == Truthy(The(obj).val["in_scope"])
                      reply == strip(StrOrEmpty(The(obj).val["reply"]))
                  IN  IF in_scope THEN Ret(Verdict(TRUE, <<>>))
                      ELSE Ret(Verdict(FALSE, reply))

\* the body of the try block of _openai_domain_gate
GateTry(mode, g) ==
    IF g.raises THEN Raise
    ELSE LET out == strip(g.resp.text)
             obj == _safe_json_loads(Resp(out, g.resp.loads))
             default_reply == IF mode = "country" THEN GATE_DEFAULT_COUNTRY
                              ELSE GATE_DEFAULT_CHAT
         IN  IF obj = None \/ The(obj).keys = {} THEN Ret(None)
             ELSE LET in_scope == Truthy(The(obj).val["in_scope"])
                      reply == strip(StrOrEmpty(The(obj).val["reply"]))
                  IN  IF in_scope THEN Ret(Verdict(TRUE, <<>>))
                      ELSE Ret(Verdict(FALSE, IF reply # <<>> THEN reply ELSE default_reply))

\* the gate that answers out of scope when its call fails
_openai_domain_gate_closed(user_message, mode, env, g) ==
    IF ~GateCalled(user_message, env) THEN Ret(None)
    ELSE LET r == GateTry(mode, g)
         IN  IF r.kind = "raise" \/ r.v = None
             THEN Ret(Verdict(FALSE, IF mode = "country" THEN GATE_DEFAULT_COUNTRY
                                     ELSE GATE_DEFAULT_CHAT))
             ELSE r

_openai_domain_gate(user_message, mode, env, g) ==
    IF ~env.gate_enabled THEN Ret(None)
    ELSE IF ~env.openai_key THEN Ret(None)
    ELSE IF strip(user_message) = <<>> THEN Ret(None)
    ELSE LET r == GateTry(mode, g)
         IN  IF r.kind = "raise" THEN Ret(None) ELSE r

\* the retrieval POST is made
RetrievalCalled(user_message, env) == env.pplx_key /\ strip(user_message) # <<>>

\* a result (obj, raw_or_err) of _perplexity_json
Pair(obj, text) == [obj |-> obj, text |-> text]

\* the body of the try block of _perplexity_json
RetrievalTry(p) ==
    CASE p.kind \in {"timeout", "ssl", "conn", "exc"} -> Raise
      [] p.kind = "http_error" ->
            Ret(Pair(None, <<"Oshibka", " ", "HTTP", " ", "5", ":", " ">> \o p.body))
      [] p.kind = "not_json" ->
            Ret(Pair(None, <<"Oshibka", ":", " ", "otvet ne JSON", ".", " ">> \o p.body))
      [] p.kind = "error" ->
            Ret(Pair(None, <<"Oshibka", " ", "ot modeli", ":", " ">> \o p.body))
      [] p.kind = "unexpected" ->
            Ret(Pair(None, <<"Neozhidannyj otvet modeli", ":", " ">> \o p.body))
      [] OTHER ->
            \* "choices" and "output_text": raw is the stripped content
            LET raw == strip(p.resp.text)
                obj == _safe_json_loads(Resp(raw, p.resp.loads))
            IN  IF obj = None \/ The(obj).keys = {}
                THEN Ret(Pair(None, _cleanup_text(raw)))
                ELSE Ret(Pair(obj, raw))

\* the except clauses of _perplexity_json
RetrievalExcept(p) ==
    CASE p.kind = "timeout" -> Ret(Pair(None, ERR_TIMEOUT))
      [] p.kind \in {"ssl", "conn"} -> Ret(Pair(None, ERR_CONNECT))
      [] OTHER -> Ret(Pair(None, <<"Oshibka", " ", "pri obrashchenii k modeli", ":", " ">>
                                 \o p.body))

\* the retrieval that looks at the message before it looks at the key
_perplexity_json_empty_first(user_message, env, p) ==
    IF strip(user_message) = <<>> THEN Ret(Pair(None, ERR_EMPTY))
    ELSE IF ~env.pplx_key THEN Ret(Pair(None, ERR_NO_KEY))
    ELSE LET t == RetrievalTry(p)
         IN  IF t.kind = "raise" THEN RetrievalExcept(p) ELSE t

\* the retrieval handing an empty object on when the text holds no JSON object
_perplexity_json_open(user_message, env, p) ==
    IF ~env.pplx_key THEN Ret(Pair(None, ERR_NO_KEY))
    ELSE IF strip(user_message) = <<>> THEN Ret(Pair(None, ERR_EMPTY))
    ELSE LET t == RetrievalTry(p)
             r == IF t.kind = "raise" THEN RetrievalExcept(p) ELSE t
         IN  IF r.v.obj = None /\ p.kind \in {"choices", "output_text"}
             THEN Ret(Pair(Some(EmptyObj), r.v.text))
             ELSE r

\* the retrieval without its except clauses
_perplexity_json_uncaught(user_message, env, p) ==
    IF ~env.pplx_key THEN Ret(Pair(None, ERR_NO_KEY))
    ELSE IF strip(user_message) = <<>> THEN Ret(Pair(None, ERR_EMPTY))
    ELSE RetrievalTry(p)

_perplexity_json(user_message, env, p) ==
    IF ~env.pplx_key THEN Ret(Pair(None, ERR_NO_KEY))
    ELSE IF strip(user_message) = <<>> THEN Ret(Pair(None, ERR_EMPTY))
    ELSE LET r == RetrievalTry(p)
         IN  IF r.kind = "raise" THEN RetrievalExcept(p) ELSE r

\* the renderer's network call is made
RenderCalled(env) == env.openai_key

\* the body of the try block of _openai_render_from_json
RenderTry(rr) ==
    IF rr.raises THEN Raise
    ELSE LET out == strip(rr.text)
         IN  IF out = <<>> THEN Ret(None) ELSE Ret(Some(_cleanup_text(out)))

\* the renderer without its except clause
_openai_render_from_json_uncaught(env, rr) ==
    IF ~env.openai_key THEN Ret(None) ELSE RenderTry(rr)

\* Optional text: None, or the rendered text
_openai_render_from_json(env, rr) ==
    IF ~env.openai_key THEN Ret(None)
    ELSE LET r == RenderTry(rr)
         IN  IF r.kind = "raise" THEN Ret(None) ELSE r

\* cleaned_obj of ask_llm
CleanedObj(obj, mode) ==
    LET a == ObjSet(obj, "sources", ListOfStr(_normalize_sources(obj.val["sources"])))
        b == ObjSet(a, "sections",
                    ListOfSections(_normalize_sections(a.val["sections"])))
    IN  IF mode # "country"
        THEN ObjSet(b, "clarify", ListOfStr(_normalize_list_str(b.val["clarify"])))
        ELSE b

\* what an ask_llm run gives: kind "ret" with the returned string, or kind "raise";
\* calls: the network calls it made, in order
Run(kind, v, calls) == [kind |-> kind, v |-> v, calls |-> calls]

\* the pipeline that asks the retrieval service before it asks the gate
ask_llm_retrieval_first(user_message, mode, env, g, p, rr) ==
    LET r == _perplexity_json(user_message, env, p)
        c1 == IF RetrievalCalled(user_message, env) THEN <<"retrieval">> ELSE <<>>
        gate == _openai_domain_gate(user_message, mode, env, g)
        c2 == c1 \o (IF GateCalled(user_message, env) THEN <<"gate">> ELSE <<>>)
    IN  IF gate.v # None /\ ~The(gate.v).in_scope
        THEN Run("ret", The(gate.v).reply, c2)
        ELSE IF r.v.obj = None THEN Run("ret", r.v.text, c2)
        ELSE
        LET cleaned_obj == CleanedObj(The(r.v.obj), mode)
            rendered == _openai_render_from_json(env, rr)
            c3 == c2 \o (IF RenderCalled(env) THEN <<"render">> ELSE <<>>)
        IN  IF rendered.kind = "raise" THEN Run("raise", <<>>, c3)
            ELSE IF rendered.v # None /\ The(rendered.v) # <<>>
            THEN Run("ret", The(rendered.v), c3)
            ELSE Run("ret", _fallback_render(cleaned_obj, mode), c3)

ask_llm(user_message, mode, env, g, p, rr) ==
    LET gate == _openai_domain_gate(user_message, mode, env, g)
        c1 == IF GateCalled(user_message, env) THEN <<"gate">> ELSE <<>>
    IN  IF gate.kind = "raise" THEN Run("raise", <<>>, c1)
        ELSE IF gate.v # None /\ ~The(gate.v).in_scope
        THEN Run("ret", The(gate.v).reply, c1)
        ELSE
        LET r == _perplexity_json(user_message, env, p)
            c2 == c1 \o (IF RetrievalCalled(user_message, env) THEN <<"retrieval">>
                         ELSE <<>>)
        IN  IF r.kind = "raise" THEN Run("raise", <<>>, c2)
            ELSE IF r.v.obj = None THEN Run("ret", r.v.text, c2)
            ELSE
            LET cleaned_obj == CleanedObj(The(r.v.obj), mode)
                rendered == _openai_render_from_json(env, rr)
                c3 == c2 \o (IF RenderCalled(env) THEN <<"render">> ELSE <<>>)
            IN  IF rendered.kind = "raise" THEN Run("raise", <<>>, c3)
                ELSE IF rendered.v # None /\ The(rendered.v) # <<>>
                THEN Run("ret", The(rendered.v), c3)
                ELSE Run("ret", _fallback_render(cleaned_obj, mode), c3)

----------------------------------------------------------------------------
(* Sample texts, objects and service behaviours *)

DigitTok(i) == <<"1", "2", "3", "4", "5", "6", "7", "8", "9">>[i]

RECURSIVE NumberedBlocks(_, _, _)
\* blocks i..n of a rendered country brief: "<b>i. heading</b>\nbody\n\n"
NumberedBlocks(i, n, body) ==
    IF i > n THEN <<>>
    ELSE <<"<b>", DigitTok(i), ".", " ", "W10", "</b>", "\n", body, "\n", "\n">>
         \o NumberedBlocks(i + 1, n, body)

\* an 8-block brief of more than MIN_PLAIN_LEN plain characters
BRIEF8 == strip(NumberedBlocks(1, 8, "W60"))
\* an 8-block brief of fewer than MIN_PLAIN_LEN plain characters
BRIEF8_SHORT == strip(NumberedBlocks(1, 8, "W10"))
\* a short apology without list markers
SHORT_TEXT == <<"W60", ".", " ", "W40">>
\* a long text with neither list markers nor topic markers
LONG_PLAIN == <<"W500", " ", "W100">>
\* a long text that carries an error marker
LONG_TRACEBACK == BRIEF8 \o <<"\n", "Traceback", " ", "W100">>

SectionTitles == <<"Osnovnye sposoby", "Vizy", "Rabot", "Ucheb", "Stoimost",
                   "Kratko", "Oficialn", "Disklejmer">>

\* the retrieval object of a country brief: 8 sections and two sources
COUNTRY_OBJ ==
    MkObj("sections" :> JList([i \in 1..8 |->
                JDict(JStr(<<SectionTitles[i]>>), JStr(<<"W60", ".">>))])
          @@ "sources" :> JList(<<JStr(<<"https://", "w10">>),
                                  JStr(<<"(", "ftp://", "w10", ")">>)>>))

\* the retrieval object of a chat answer
CHAT_OBJ ==
    MkObj("answer" :> JStr(<<"W100", ".">>)
          @@ "clarify" :> JList(<<JStr(<<"W10", "?">>), JStr(<<" ">>), JNum("7"),
                                  JStr(<<"W40", "?">>), JStr(<<"W60", "?">>)>>)
          @@ "sources" :> JList(<<JStr(<<" ", "HTTP://", "w10", ".">>)>>))

\* an object that violates the schema in every field
ODD_OBJ ==
    MkObj("answer" :> JNum("0")
          @@ "clarify" :> JStr(<<"W10">>)
          @@ "sources" :> JDict(JNull, JNull)
          @@ "sections" :> JList(<<JNum("7"), JDict(JNull, JStr(<<" ">>)),
                                   JStr(<<"W10">>)>>))

\* the text of a response that is one JSON object, and of one that is not
JSON_TEXT == <<"{", "W100", "}">>
NOISY_JSON_TEXT == <<"W10", " ", "{", "W100", "}", " ", "[", "1", "]">>

Envs == [gate_enabled : BOOLEAN, openai_key : BOOLEAN, pplx_key : BOOLEAN]
ENV_ALL == [gate_enabled |-> TRUE, openai_key |-> TRUE, pplx_key |-> TRUE]

GateVerdictObj(in_scope, reply) == MkObj("in_scope" :> in_scope @@ "reply" :> reply)

G_IN_SCOPE == [raises |-> FALSE,
               resp |-> Resp(JSON_TEXT, Some(GateVerdictObj(JBool(TRUE), JStr(<<>>))))]
G_REDIRECT == [raises |-> FALSE,
               resp |-> Resp(JSON_TEXT,
                             Some(GateVerdictObj(JBool(FALSE), JStr(<<"W40", ".">>))))]
G_REDIRECT_EMPTY == [raises |-> FALSE,
                     resp |-> Resp(NOISY_JSON_TEXT,
                                   Some(GateVerdictObj(JBool(FALSE), JStr(<<" ">>))))]
G_RAISES == [raises |-> TRUE, resp |-> Resp(<<>>, None)]
G_NO_JSON == [raises |-> FALSE, resp |-> Resp(<<"W40">>, None)]
G_BAD_JSON == [raises |-> FALSE, resp |-> Resp(<<"{", "W40", "}">>, None)]
G_EMPTY_OBJ == [raises |-> FALSE, resp |-> Resp(<<"{", "}">>, Some(EmptyObj))]

GateBehaviours == {G_IN_SCOPE, G_REDIRECT, G_REDIRECT_EMPTY, G_RAISES, G_NO_JSON,
                   G_BAD_JSON, G_EMPTY_OBJ}
\* the gate fails: the call raises, or its response holds no JSON object
GateFailures == {G_RAISES, G_NO_JSON, G_BAD_JSON}

P(kind, resp, body) == [kind |-> kind, resp |-> resp, body |-> body]
NoResp == Resp(<<>>, None)

P_COUNTRY == P("choices", Resp(JSON_TEXT, Some(COUNTRY_OBJ)), <<>>)
P_CHAT == P("output_text", Resp(NOISY_JSON_TEXT, Some(CHAT_OBJ)), <<>>)
P_ODD == P("choices", Resp(JSON_TEXT, Some(ODD_OBJ)), <<>>)
P_EMPTY_OBJ == P("choices", Resp(<<"{", "}">>, Some(EmptyObj)), <<>>)
P_RAW_BRIEF == P("choices", Resp(BRIEF8 \o <<" ", "[", "1", "]">>, None), <<>>)
P_RAW_SHORT == P("choices", Resp(<<" ">> \o SHORT_TEXT, None), <<>>)
P_RAW_EMPTY == P("output_text", Resp(<<>>, None), <<>>)
P_BAD_JSON == P("choices", Resp(<<"{", "W40", "}">>, None), <<>>)

RetrievalBehaviours ==
    {P_COUNTRY, P_CHAT, P_ODD, P_EMPTY_OBJ, P_RAW_BRIEF, P_RAW_SHORT, P_RAW_EMPTY,
     P_BAD_JSON}
    \cup {P(k, NoResp, <<"W40">>) :
            k \in {"timeout", "ssl", "conn", "exc", "http_error", "not_json", "error",
                   "unexpected"}}

R_BRIEF == [raises |-> FALSE, text |-> <<" ">> \o BRIEF8 \o <<"\n">>]
R_SHORT == [raises |-> FALSE, text |-> SHORT_TEXT]
R_CITE_ONLY == [raises |-> FALSE, text |-> <<"[", "1", "]">>]
R_EMPTY == [raises |-> FALSE, text |-> <<" ">>]
R_RAISES == [raises |-> TRUE, text |-> <<>>]

RenderBehaviours == {R_BRIEF, R_SHORT, R_CITE_ONLY, R_EMPTY, R_RAISES}

----------------------------------------------------------------------------
(* bot.py: sanitize_telegram_html and send_long *)

\* the byte \x00 of the placeholders is the token "NUL"
\* names of _ALLOWED_TAG_RE that open and close without attributes
TagNames == {"b", "i", "u", "s", "code", "pre"}

\* the end (index after the match) of a match of _ALLOWED_TAG_RE starting at j, or 0:
\* a tag that is one token, or a tag spelled "<", name, ">" or "<", "/", name, ">"
AllowedTagEnd(s, j) ==
    IF s[j] \in TagToks THEN j + 1
    ELSE IF s[j] = "<" /\ j + 2 <= Len(s) /\ s[j + 1] \in TagNames /\ s[j + 2] = ">"
    THEN j + 3
    ELSE IF s[j] = "<" /\ j + 3 <= Len(s) /\ s[j + 1] = "/"
            /\ s[j + 2] \in TagNames \cup {"a"} /\ s[j + 3] = ">"
    THEN j + 4
    ELSE 0

RECURSIVE DecTokens(_)
\* str(n): the decimal digits of n
DecTokens(n) == IF n < 10 THEN <<ToString(n)>> ELSE DecTokens(n \div 10) \o <<ToString(n % 10)>>

RECURSIVE DecValue(_)
\* int(d) of a sequence of digits
DecValue(d) ==
    IF d = <<>> THEN 0
    ELSE 10 * DecValue(SubSeq(d, 1, Len(d) - 1))
         + (CHOOSE v \in 0..9 : ToString(v) = d[Len(d)])

RECURSIVE Stash(_, _, _)
\* _ALLOWED_TAG_RE.sub(_stash, src) from index i on, with n tags stashed before:
\* tmp is the text with a placeholder for every match, tags the matches
Stash(s, i, n) ==
    LET M == {j \in i..Len(s) : AllowedTagEnd(s, j) # 0}
    IN  IF M = {} THEN [tmp |-> SubSeq(s, i, Len(s)), tags |-> <<>>]
        ELSE LET j == MinOf(M)
                 e == AllowedTagEnd(s, j)
                 rest == Stash(s, e, n + 1)
             IN  [tmp |-> SubSeq(s, i, j - 1) \o <<"NUL">> \o DecTokens(n) \o <<"NUL">>
                          \o rest.tmp,
                  tags |-> <<SubSeq(s, j, e - 1)>> \o rest.tags]

\* html.escape(t, quote=False) of one token
EscapeTok(t) ==
    CASE t = "&" -> <<"&amp;">>
      [] t = "<" -> <<"&lt;">>
      [] t = ">" -> <<"&gt;">>
      [] t = "&lt;" -> <<"&amp;", "lt;">>
      [] t = "&gt;" -> <<"&amp;", "gt;">>
      [] t = "&amp;" -> <<"&amp;", "amp;">>
      [] OTHER -> <<t>>

RECURSIVE Escape(_)
\* html.escape(s, quote=False)
Escape(s) ==
    IF s = <<>> THEN <<>>
    ELSE IF Len(s) = 1 THEN EscapeTok(s[1])
    ELSE LET h == Len(s) \div 2
         IN  Escape(SubSeq(s, 1, h)) \o Escape(SubSeq(s, h + 1, Len(s)))

RECURSIVE DigitsEnd(_, _)
\* the index after the run of digits that starts at j
DigitsEnd(s, j) == IF j <= Len(s) /\ s[j] \in Digits THEN DigitsEnd(s, j + 1) ELSE j

\* the end (index after the match) of a match of \x00(\d+)\x00 starting at j, or 0
PlaceholderEnd(s, j) ==
    LET e == DigitsEnd(s, j + 1)
    IN  IF s[j] = "NUL" /\ e > j + 1 /\ e <= Len(s) /\ s[e] = "NUL" THEN e + 1 ELSE 0

RECURSIVE Restore(_, _, _)
\* re.sub(r"\x00(\d+)\x00", _restore, tmp) from index i on
Restore(s, i, tags) ==
    LET M == {j \in i..Len(s) : PlaceholderEnd(s, j) # 0}
    IN  IF M = {} THEN SubSeq(s, i, Len(s))
        ELSE LET j == MinOf(M)
                 e == PlaceholderEnd(s, j)
                 idx == DecValue(SubSeq(s, j + 1, e - 2))
             IN  SubSeq(s, i, j - 1)
                 \o (IF idx < Len(tags) THEN tags[idx + 1] ELSE <<>>)
                 \o Restore(s, e, tags)

sanitize_telegram_html(text) ==
    IF text = <<>> THEN <<>>
    ELSE LET st == Stash(text, 1, 0)
         IN  Restore(Escape(st.tmp), 1, st.tags)

RECURSIVE Fill(_)
\* n characters of text that are no markup, no whitespace and no digits
Fill(n) ==
    IF n >= 500 THEN <<"W500">> \o Fill(n - 500)
    ELSE IF n >= 100 THEN <<"W100">> \o Fill(n - 100)
    ELSE IF n >= 10 THEN <<"W10">> \o Fill(n - 10)
    ELSE IF n >= 1 THEN <<"x">> \o Fill(n - 1)
    ELSE <<>>

\* the first k characters of a token, and the others: the delimiter of a tag or of
\* an entity stays a character of its own
TokHead(t, k) ==
    IF t \in TagToks THEN <<"<">> \o Fill(k - 1)
    ELSE IF t \in {"&lt;", "&gt;", "&amp;"} THEN <<"&">> \o Fill(k - 1)
    ELSE Fill(k)
TokTail(t, k) ==
    IF t \in TagToks THEN Fill(TokLen(t) - k - 1) \o <<">">>
    ELSE Fill(TokLen(t) - k)

\* the number of whole tokens of t within its first cut characters
TokensWithin(t, cut) ==
    CHOOSE k \in 0..Len(t) :
        /\ StrLen(SubSeq(t, 1, k)) <= cut
        /\ k < Len(t) => StrLen(SubSeq(t, 1, k + 1)) > cut

\* t[:cut] and t[cut:]
Before(t, cut) ==
    LET k == TokensWithin(t, cut)
        off == cut - StrLen(SubSeq(t, 1, k))
    IN  SubSeq(t, 1, k) \o (IF k < Len(t) /\ off > 0 THEN TokHead(t[k + 1], off) ELSE <<>>)
After(t, cut) ==
    LET k == TokensWithin(t, cut)
        off == cut - StrLen(SubSeq(t, 1, k))
    IN  IF k < Len(t) /\ off > 0
        THEN TokTail(t[k + 1], off) \o SubSeq(t, k + 2, Len(t))
        ELSE SubSeq(t, k + 1, Len(t))

\* t.rfind("\n", 0, limit): the offset of the last line break before limit, or -1
RFindNewline(t, limit) ==
    LET breaks == {j \in DOMAIN t : t[j] = "\n"}
        found == {c \in {StrLen(SubSeq(t, 1, j - 1)) : j \in breaks} : c < limit}
    IN  IF found = {} THEN -1 ELSE CHOOSE c \in found : \A d \in found : d <= c

RECURSIVE SendLoop(_, _)
\* the loop of send_long and the lines after it: the messages sent, in order, each
\* with the flag that it carries reply_markup
SendLoop(t, first) ==
    IF StrLen(t) > SEND_LIMIT
    THEN LET found == RFindNewline(t, SEND_LIMIT)
             cut == IF found = -1 THEN SEND_LIMIT ELSE found
             part == strip(Before(t, cut))
         IN  (IF part # <<>> THEN <<[text |-> part, markup |-> first]>> ELSE <<>>)
             \o SendLoop(strip(After(t, cut)), first /\ part = <<>>)
    ELSE IF t # <<>> THEN <<[text |-> t, markup |-> first]>>
    ELSE <<>>

\* the messages that send_long(message, text, reply_markup) sends
send_long(text) ==
    LET t == sanitize_telegram_html(strip(text))
    IN  IF t = <<>> THEN <<>> ELSE SendLoop(t, TRUE)

\* send_long returns at "if not t": the sanitized text is empty.  A text without
\* the placeholder byte is sanitized to the empty text only when it is empty, since
\* html.escape and the restored tags drop no character
SendsNothing(text) ==
    LET t == strip(text)
    IN  IF Contains(t, "NUL") THEN sanitize_telegram_html(t) = <<>> ELSE t = <<>>

----------------------------------------------------------------------------
(* bot.py: the message handlers, one step per await *)

Slots == 1..NReq

\* the texts users send in the country stage, and in the chat stage
CountryQueries == {<<" ", "GERMANIYA">>, <<>>}
CHAT_TEXT == <<"W40", "?">>

\* the fixed reply that replaces an answer starting with the error word
APOLOGY == <<"Sejchas ne udalos poluchit spravku", " ", "W100">>

\* what the three services do during one call_llm of a handler
Services == {[g |-> G_IN_SCOPE, p |-> P_COUNTRY, rr |-> R_BRIEF],
             [g |-> G_IN_SCOPE, p |-> P("timeout", NoResp, <<>>), rr |-> R_BRIEF],
             [g |-> G_REDIRECT, p |-> P_COUNTRY, rr |-> R_BRIEF]}

\* call_llm: ask_llm in a worker thread
call_llm(user_message, mode, sv) == ask_llm(user_message, mode, ENV_ALL, sv.g, sv.p, sv.rr)

\* A handler invocation (an asyncio task).  pc is the await it is suspended at; the
\* other fields are its local variables, which exist while they are live; reply is
\* what it told the user.  History fields: eff (the limit that the stored boost_until
\* gives at the time get_effective_limits ran), calls (the network calls of its
\* pipeline run), failed (the calls behind its latest decision that raised).
NewReq == [pc |-> "new", user |-> "ann", handler |-> "none", text |-> <<>>,
           limit |-> 0, eff |-> 0, cached |-> None, answer |-> <<>>, calls |-> <<>>,
           failed |-> {}, reply |-> "none"]

\* the guarded block of either handler: from user_busy[user_id] = True to the finally
BlockPcs == {"cacheget", "sendcached", "cachedel", "ensure", "savemsg", "prep", "llm",
             "cachesave", "saveasst", "send"}
InBlock(r) == r.pc \in BlockPcs

\* every user message saved with the mode of the admins
SaveMode_admin(r) == "admin"

\* mode of a handler's rows and of its count
ModeOf(r) == IF r.handler = "country" THEN "country" ELSE "chat"
\* mode=("admin" if is_admin(user_id) else ...) of the saved user message
SaveMode(r) == IF is_admin(r.user) THEN "admin" ELSE ModeOf(r)

\* the handler returns: its locals are gone, its reply stays
Finish(r, reply) ==
    [NewReq EXCEPT !.pc = "done", !.user = r.user, !.handler = r.handler,
                   !.failed = r.failed, !.reply = reply]

\* a call raises (ok is false) only while the behaviour has events left
Fault(ok) ==
    /\ IF ok THEN TRUE ELSE events < MaxEvents
    /\ events' = IF ok THEN events ELSE events + 1

\* the calls behind the latest decision that raised: those named, when not ok
Mark(r, name, ok) == [r EXCEPT !.failed = IF ok THEN {} ELSE {name}]
\* the latest step made no decision on a read
Clear(r) == [r EXCEPT !.failed = {}]

\* the effective limit of a mode given the stored boost_until
EffectiveLimit(b, user_id, mode, t) ==
    LET boosted == user_id \in DOMAIN b /\ b[user_id] # None /\ The(b[user_id]) > t
    IN  IF mode = "chat"
        THEN (IF boosted THEN CHAT_DAILY_LIMIT_BOOST ELSE CHAT_DAILY_LIMIT)
        ELSE (IF boosted THEN COUNTRY_DAILY_LIMIT_BOOST ELSE COUNTRY_DAILY_LIMIT)

\* echo_message from the busy check on: reject, or set the flag and enter the block
EnterChat(i, r) ==
    IF user_busy[r.user]
    THEN /\ req' = [req EXCEPT ![i] = Finish(r, "busy")]
         /\ UNCHANGED user_busy
    ELSE /\ req' = [req EXCEPT ![i] = [r EXCEPT !.pc = "ensure", !.limit = 0, !.eff = 0]]
         /\ user_busy' = [user_busy EXCEPT ![r.user] = TRUE]

\* a handler is invoked: process_country_request up to its first await, or
\* echo_message (stage "chat") up to its first await
Start(i, u, h, text) ==
    /\ req[i].pc = "new"
    /\ IF i = 1 THEN TRUE ELSE req[i - 1].pc # "new"
    /\ LET r == [req[i] EXCEPT !.user = u, !.handler = h, !.text = strip(text)]
       IN  IF h = "country"
           THEN /\ req' = [req EXCEPT ![i] =
                            IF r.text = <<>> THEN Finish(r, "prompt")
                            ELSE IF user_busy[u] THEN Finish(r, "busy")
                            ELSE IF ~is_admin(u) THEN [r EXCEPT !.pc = "limits"]
                            ELSE [r EXCEPT !.pc = "save"]]
                /\ UNCHANGED user_busy
           ELSE IF ~is_admin(u)
                THEN /\ req' = [req EXCEPT ![i] = [r EXCEPT !.pc = "limits"]]
                     /\ UNCHANGED user_busy
                ELSE EnterChat(i, r)
    /\ UNCHANGED <<now, events, ticks, boosts, boost_until, messages, cache, written, last, llm>>

\* await get_effective_limits(user_id)
Limits(i, ok) ==
    /\ req[i].pc = "limits"
    /\ Fault(ok)
    /\ LET r == req[i]
           lim == get_effective_limits(boost_until, r.user, ok, now)
       IN  req' = [req EXCEPT ![i] =
                    [Mark(r, "limits", ok) EXCEPT
                        !.pc = "count",
                        !.limit = IF r.handler = "chat" THEN lim.chat ELSE lim.country,
                        !.eff = EffectiveLimit(boost_until, r.user, ModeOf(r), now)]]
    /\ UNCHANGED <<now, ticks, boosts, user_busy, boost_until, messages, cache, written,
                   last, llm>>

\* the comparison used_today > limit
OverQuota_strict(used_today, limit) == used_today > limit

\* the comparison of the quota check
OverQuota(used_today, limit) == used_today >= limit

\* the quota check without its return: the quota message is sent and the handler goes on
Count_no_return(i, ok) ==
    /\ req[i].pc = "count"
    /\ Fault(ok)
    /\ LET used_today == IF ok THEN get_daily_user_message_count(
                                        messages, req[i].user, ModeOf(req[i]), now)
                         ELSE 0
           r == [req[i] EXCEPT !.failed = IF ok THEN @ ELSE @ \cup {"count"},
                               !.reply = IF OverQuota(used_today, req[i].limit)
                                         THEN "quota" ELSE @]
       IN  IF r.handler = "country"
           THEN /\ req' = [req EXCEPT ![i] = [r EXCEPT !.pc = "save", !.limit = 0, !.eff = 0]]
                /\ UNCHANGED user_busy
           ELSE EnterChat(i, r)
    /\ UNCHANGED <<now, ticks, boosts, boost_until, messages, cache, written, last, llm>>

\* await get_daily_user_message_count(user_id, mode), then the quota check
Count(i, ok) ==
    /\ req[i].pc = "count"
    /\ Fault(ok)
    /\ LET used_today == IF ok THEN get_daily_user_message_count(
                                        messages, req[i].user, ModeOf(req[i]), now)
                         ELSE 0
           r == [req[i] EXCEPT !.failed = IF ok THEN @ ELSE @ \cup {"count"}]
       IN  IF OverQuota(used_today, r.limit)
           THEN /\ req' = [req EXCEPT ![i] = Finish(r, "quota")]
                /\ UNCHANGED user_busy
           ELSE IF r.handler = "country"
           THEN /\ req' = [req EXCEPT ![i] = [r EXCEPT !.pc = "save", !.limit = 0, !.eff = 0]]
                /\ UNCHANGED user_busy
           ELSE EnterChat(i, r)
    /\ UNCHANGED <<now, ticks, boosts, boost_until, messages, cache, written, last, llm>>

\* the finally clause with one flag for all users
Leave_shared_flag(i, r, reply) ==
    /\ req' = [req EXCEPT ![i] = Finish(Clear(r), reply)]
    /\ user_busy' = [u \in Users |-> FALSE]

\* the finally clause: user_busy[user_id] = False, and the handler ends
Leave(i, r, reply) ==
    /\ req' = [req EXCEPT ![i] = Finish(Clear(r), reply)]
    /\ user_busy' = [user_busy EXCEPT ![r.user] = FALSE]

\* country_key = country_query.lower()
CountryKey(r) == lower(r.text)

\* await save_message(user_id, "user", country_query, mode=...), then
\* user_busy[user_id] = True
Save(i, ok) ==
    /\ req[i].pc = "save"
    /\ Fault(ok)
    /\ LET r == req[i]
       IN  /\ messages' = IF ok THEN save_message(messages, r.user, "user", SaveMode(r), now)
                          ELSE messages
           /\ req' = [req EXCEPT ![i] = [Clear(r) EXCEPT !.pc = "cacheget"]]
           /\ user_busy' = [user_busy EXCEPT ![r.user] = TRUE]
    /\ UNCHANGED <<now, ticks, boosts, boost_until, cache, written, last, llm>>

\* await get_cached_country_info(country_key), then the re-check of the cached answer
CacheGet(i, ok) ==
    /\ req[i].pc = "cacheget"
    /\ Fault(ok)
    /\ LET cached == IF ok THEN get_cached_country_info(cache, CountryKey(req[i]), now)
                     ELSE None
           truthy == cached # None /\ The(cached) # <<>>
           r == Mark(req[i], "cacheget", ok)
       IN  req' = [req EXCEPT ![i] =
                    IF truthy /\ is_country_answer_cacheable(The(cached))
                    THEN [r EXCEPT !.pc = "sendcached", !.cached = cached]
                    ELSE IF truthy THEN [r EXCEPT !.pc = "cachedel"]
                    ELSE [r EXCEPT !.pc = "ensure"]]
    /\ UNCHANGED <<now, ticks, boosts, user_busy, boost_until, messages, cache, written,
                   last, llm>>

\* the cached reply returning without the finally clause
SendCached_keeps_flag(i, ok) ==
    /\ req[i].pc = "sendcached"
    /\ Fault(ok)
    /\ req' = [req EXCEPT ![i] =
                Finish(Clear(req[i]), IF ok THEN "cached" ELSE "failed")]
    /\ UNCHANGED <<now, ticks, boosts, user_busy, boost_until, messages, cache, written,
                   last, llm>>

\* await send_long(message, cached), await send_country_again_prompt, return: the
\* finally clause runs whether or not a send raised
SendCached(i, ok) ==
    /\ req[i].pc = "sendcached"
    /\ Fault(ok)
    /\ Leave(i, req[i], IF ok THEN "cached" ELSE "failed")
    /\ UNCHANGED <<now, ticks, boosts, boost_until, messages, cache, written, last, llm>>

\* a key is deleted from the history of puts
Unwrite(w, country_key) ==
    [k \in DOMAIN w \ {_normalize_country_key(country_key)} |-> w[k]]

\* the delete whose exception is not caught: the finally clause runs
CacheDel_aborting(i, ok) ==
    /\ req[i].pc = "cachedel"
    /\ Fault(ok)
    /\ cache' = IF ok THEN delete_cached_country_info(cache, CountryKey(req[i])) ELSE cache
    /\ written' = IF ok THEN Unwrite(written, CountryKey(req[i])) ELSE written
    /\ IF ok
       THEN /\ req' = [req EXCEPT ![i] = [Clear(req[i]) EXCEPT !.pc = "ensure"]]
            /\ UNCHANGED user_busy
       ELSE Leave(i, req[i], "failed")
    /\ UNCHANGED <<now, ticks, boosts, boost_until, messages, last, llm>>

\* await delete_cached_country_info(country_key) of an answer that fails the re-check;
\* a delete that raised is recorded in failed
CacheDel(i, ok) ==
    /\ req[i].pc = "cachedel"
    /\ Fault(ok)
    /\ cache' = IF ok THEN delete_cached_country_info(cache, CountryKey(req[i])) ELSE cache
    /\ written' = IF ok THEN Unwrite(written, CountryKey(req[i])) ELSE written
    /\ req' = [req EXCEPT ![i] = [Mark(req[i], "cachedel", ok) EXCEPT !.pc = "ensure"]]
    /\ UNCHANGED <<now, ticks, boosts, user_busy, boost_until, messages, last, llm>>

\* await ensure_user(...)
Ensure(i, ok) ==
    /\ req[i].pc = "ensure"
    /\ Fault(ok)
    /\ boost_until' = IF ok THEN ensure_user(boost_until, req[i].user) ELSE boost_until
    /\ req' = [req EXCEPT ![i] =
                [Clear(req[i]) EXCEPT
                    !.pc = IF req[i].handler = "country" THEN "prep" ELSE "savemsg"]]
    /\ UNCHANGED <<now, ticks, boosts, user_busy, messages, cache, written, last, llm>>

\* echo_message: await save_message(user.id, "user", user_text, mode=...)
SaveMsg(i, ok) ==
    /\ req[i].pc = "savemsg"
    /\ Fault(ok)
    /\ messages' = IF ok THEN save_message(messages, req[i].user, "user", SaveMode(req[i]), now)
                   ELSE messages
    /\ req' = [req EXCEPT ![i] = [Clear(req[i]) EXCEPT !.pc = "prep"]]
    /\ UNCHANGED <<now, ticks, boosts, user_busy, boost_until, cache, written, last, llm>>

\* the awaits before call_llm that change no state and are outside any inner try:
\* get_user_profile and get_recent_messages (chat), send_chat_action and the
\* "thinking" message (both handlers).  When one raises the finally clause runs.
Prep(i, ok) ==
    /\ req[i].pc = "prep"
    /\ Fault(ok)
    /\ IF ok
       THEN /\ req' = [req EXCEPT ![i] = [Clear(req[i]) EXCEPT !.pc = "llm"]]
            /\ UNCHANGED user_busy
       ELSE Leave(i, req[i], "failed")
    /\ UNCHANGED <<now, ticks, boosts, boost_until, messages, cache, written, last, llm>>

\* answer = await call_llm(...), and the synchronous code after it up to the next await
LLMReturn(i, sv) ==
    /\ req[i].pc = "llm"
    /\ LET r == req[i]
           run == call_llm(r.text, ModeOf(r), sv)
           answer == IF r.handler = "country" /\ StartsWith(lower(strip(run.v)), "oshibka")
                     THEN APOLOGY ELSE run.v
           got == [r EXCEPT !.answer = answer, !.calls = run.calls]
       IN  IF run.kind = "raise"
           THEN Leave(i, r, "failed")
           ELSE /\ req' = [req EXCEPT ![i] =
                            [got EXCEPT !.pc = IF r.handler = "chat" THEN "saveasst"
                                               ELSE IF is_country_answer_cacheable(answer)
                                               THEN "cachesave"
                                               ELSE "send"]]
                /\ UNCHANGED user_busy
    /\ UNCHANGED <<now, events, ticks, boosts, boost_until, messages, cache, written, last, llm>>

\* a put is added to the history of puts
Write(w, country_key, answer, t) ==
    LET key == _normalize_country_key(country_key)
    IN  [k \in DOMAIN w \cup {key} |->
            IF k = key THEN [answer |-> answer, at |-> t, by |-> "request"] ELSE w[k]]

\* await save_cached_country_info(country_key, country_query, answer)
CacheSave(i, ok) ==
    /\ req[i].pc = "cachesave"
    /\ Fault(ok)
    /\ LET r == req[i]
       IN  /\ cache' = IF ok THEN save_cached_country_info(cache, CountryKey(r), r.text,
                                                            r.answer, now)
                       ELSE cache
           /\ written' = IF ok THEN Write(written, CountryKey(r), r.answer, now) ELSE written
           /\ req' = [req EXCEPT ![i] = [Mark(r, "cachesave", ok) EXCEPT !.pc = "send"]]
    /\ UNCHANGED <<now, ticks, boosts, user_busy, boost_until, messages, last, llm>>

\* echo_message: await save_message(user.id, "assistant", answer), mode "chat"
SaveAsst(i, ok) ==
    /\ req[i].pc = "saveasst"
    /\ Fault(ok)
    /\ messages' = IF ok THEN save_message(messages, req[i].user, "assistant", "chat", now)
                   ELSE messages
    /\ req' = [req EXCEPT ![i] = [Clear(req[i]) EXCEPT !.pc = "send"]]
    /\ UNCHANGED <<now, ticks, boosts, user_busy, boost_until, cache, written, last, llm>>

\* await send_long(message, answer), which sends nothing when the sanitized answer
\* is empty, and in the country handler await send_country_again_prompt(message)
\* (the keyboard of popular countries is configured); the finally clause runs
\* whether or not a send raised
Send(i, ok) ==
    /\ req[i].pc = "send"
    /\ Fault(ok)
    /\ LET nothing == SendsNothing(req[i].answer)
       IN  /\ IF nothing /\ req[i].handler = "chat" THEN ok ELSE TRUE
           /\ Leave(i, req[i], IF ~ok THEN "failed"
                               ELSE IF ~nothing THEN "answer"
                               ELSE IF req[i].handler = "country" THEN "again"
                               ELSE "nothing")
    /\ UNCHANGED <<now, ticks, boosts, boost_until, messages, cache, written, last, llm>>

----------------------------------------------------------------------------
(* The environment of the handlers: the clock, payments, admin commands *)

\* the clock advances by one unit, by the length of a boost, or by one unit more than
\* the cache TTL
TickSteps == {1, Days(BOOST_DAYS), TTL + 1}

Tick(d) ==
    /\ events < MaxEvents
    /\ events' = events + 1
    /\ now' = now + d
    /\ UNCHANGED <<ticks, boosts, user_busy, boost_until, messages, cache, written, req,
                   last, llm>>

\* the users who pay
Payers == Users \ ADMIN_IDS

\* handle_successful_payment, donation branch: ensure_user and add_boost_days, each
\* inside its own try/except
Payment(u, ok_ensure, ok_add) ==
    /\ events < MaxEvents
    /\ events' = events + 1
    /\ LET b == IF ok_ensure THEN ensure_user(boost_until, u) ELSE boost_until
       IN  boost_until' = IF ok_add THEN add_boost_days(b, u, BOOST_DAYS, now) ELSE b
    /\ UNCHANGED <<now, ticks, boosts, user_busy, messages, cache, written, req, last, llm>>

admin_delete_cache(c, country_key) ==
    LET key == _normalize_country_key(country_key)
    IN  [k \in DOMAIN c \ {key} |-> c[k]]

\* admin callback cache_del
AdminDeleteCache(key) ==
    /\ events < MaxEvents
    /\ events' = events + 1
    /\ cache' = admin_delete_cache(cache, key)
    /\ written' = Unwrite(written, key)
    /\ UNCHANGED <<now, ticks, boosts, user_busy, boost_until, messages, req, last, llm>>

----------------------------------------------------------------------------
(* The handler-level specification *)

\* n earlier user messages of "ann" in each mode
Preload(n) ==
    LET rows == {[user |-> "ann", role |-> "user", mode |-> m, created_at |-> 0] :
                    m \in {"chat", "country"}}
    IN  [x \in (IF n = 0 THEN {} ELSE rows) |-> n]

\* a row left in the cache by an earlier deployment, whose answer fails the re-check
LegacyCache ==
    [k \in {<<"germaniya">>} |->
        [country_query |-> <<"Germaniya">>, answer |-> SHORT_TEXT, created_at |-> 0]]
LegacyWritten ==
    [k \in {<<"germaniya">>} |-> [answer |-> SHORT_TEXT, at |-> 0, by |-> "legacy"]]

\* a user row whose boost was bought at time 0
BoostedAnn == [u \in {"ann"} |-> Some(Days(BOOST_DAYS))]

\* the contents of the database at the start: the rows a user has from earlier
\* today, the cache, the users
InitialDBs ==
    {[messages |-> Preload(COUNTRY_DAILY_LIMIT - 1), cache |-> <<>>, written |-> <<>>,
      boost_until |-> <<>>],
     [messages |-> Preload(COUNTRY_DAILY_LIMIT), cache |-> LegacyCache,
      written |-> LegacyWritten, boost_until |-> <<>>],
     [messages |-> Preload(CHAT_DAILY_LIMIT), cache |-> <<>>, written |-> <<>>,
      boost_until |-> BoostedAnn]}

\* the value of a variable that a specification does not use
Idle == [op |-> "none"]

Init ==
    /\ now = 0
    /\ events = 0
    /\ ticks = 0
    /\ boosts = 0
    /\ user_busy = [u \in Users |-> FALSE]
    /\ \E db \in InitialDBs :
          /\ boost_until = db.boost_until
          /\ messages = db.messages
          /\ cache = db.cache
          /\ written = db.written
    /\ req = [i \in Slots |-> NewReq]
    /\ last = Idle
    /\ llm = Idle

Next ==
    \/ \E i \in Slots, u \in Users, q \in CountryQueries : Start(i, u, "country", q)
    \/ \E i \in Slots, u \in Users : Start(i, u, "chat", CHAT_TEXT)
    \/ \E i \in Slots, ok \in BOOLEAN : Limits(i, ok)
    \/ \E i \in Slots, ok \in BOOLEAN : Count(i, ok)
    \/ \E i \in Slots, ok \in BOOLEAN : Save(i, ok)
    \/ \E i \in Slots, ok \in BOOLEAN : CacheGet(i, ok)
    \/ \E i \in Slots, ok \in BOOLEAN : SendCached(i, ok)
    \/ \E i \in Slots, ok \in BOOLEAN : CacheDel(i, ok)
    \/ \E i \in Slots, ok \in BOOLEAN : Ensure(i, ok)
    \/ \E i \in Slots, ok \in BOOLEAN : SaveMsg(i, ok)
    \/ \E i \in Slots, ok \in BOOLEAN : Prep(i, ok)
    \/ \E i \in Slots, sv \in Services : LLMReturn(i, sv)
    \/ \E i \in Slots, ok \in BOOLEAN : CacheSave(i, ok)
    \/ \E i \in Slots, ok \in BOOLEAN : SaveAsst(i, ok)
    \/ \E i \in Slots, ok \in BOOLEAN : Send(i, ok)
    \/ \E d \in TickSteps : Tick(d)
    \/ \E u \in Payers, ok_ensure \in BOOLEAN, ok_add \in BOOLEAN :
            Payment(u, ok_ensure, ok_add)
    \/ AdminDeleteCache(<<"Germaniya">>)

Spec == Init /\ [][Next]_vars

----------------------------------------------------------------------------
(* The storage-level specification: the functions of logic/db.py and
   get_effective_limits of bot.py, called one at a time on the tables while the
   clock advances *)

\* the keys, in the spellings that _normalize_country_key merges
DBKeys == {<<"germaniya">>, <<" ", "Germaniya", " ">>}

\* the stored answers
DBAnswers == {<<"a">>, <<"b">>}

\* N of add_boost_days: the payment (BOOST_DAYS) and the admin callbacks add7, add30
BoostDays == {BOOST_DAYS, 30}

\* the clock advances of the storage-level specification
DBTickSteps == {1, Days(BOOST_DAYS), TTL}

\* time passes
DBTick(d) ==
    /\ ticks < MaxTicks
    /\ ticks' = ticks + 1
    /\ now' = now + d
    /\ UNCHANGED <<events, boosts, user_busy, boost_until, messages, cache, written, req,
                   last, llm>>

\* await init_db(): the sweep at start-up
InitDb ==
    /\ cache # Sweep(cache, now)
    /\ cache' = Sweep(cache, now)
    /\ last' = [op |-> "init_db", at |-> now]
    /\ UNCHANGED <<now, events, ticks, boosts, user_busy, boost_until, messages, written,
                   req, llm>>

\* await save_cached_country_info(key, key, a)
Put(key, a) ==
    /\ cache' = save_cached_country_info(cache, key, key, a, now)
    /\ written' = Write(written, key, a, now)
    /\ last' = [op |-> "put", key |-> key, at |-> now]
    /\ UNCHANGED <<now, events, ticks, boosts, user_busy, boost_until, messages, req, llm>>

\* the read that deletes the entry it finds older than the TTL
Get_evicting(key) ==
    /\ last' = [op |-> "get", key |-> key, at |-> now,
                result |-> get_cached_country_info(cache, key, now)]
    /\ cache' = IF get_cached_country_info(cache, key, now) = None
                THEN delete_cached_country_info(cache, key) ELSE cache
    /\ UNCHANGED <<now, events, ticks, boosts, user_busy, boost_until, messages,
                   written, req, llm>>

\* await get_cached_country_info(key)
Get(key) ==
    /\ last' = [op |-> "get", key |-> key, at |-> now,
                result |-> get_cached_country_info(cache, key, now)]
    /\ UNCHANGED <<now, events, ticks, boosts, user_busy, boost_until, messages, cache,
                   written, req, llm>>

\* await delete_cached_country_info(key)
Del(key) ==
    /\ cache' = delete_cached_country_info(cache, key)
    /\ written' = Unwrite(written, key)
    /\ last' = [op |-> "del", key |-> key, at |-> now]
    /\ UNCHANGED <<now, events, ticks, boosts, user_busy, boost_until, messages, req, llm>>

\* await ensure_user(u)
EnsureUser(u) ==
    /\ u \notin DOMAIN boost_until
    /\ boost_until' = ensure_user(boost_until, u)
    /\ last' = [op |-> "ensure", user |-> u, at |-> now]
    /\ UNCHANGED <<now, events, ticks, boosts, user_busy, messages, cache, written, req,
                   llm>>

\* await add_boost_days(u, days)
AddBoost(u, days) ==
    /\ boosts < MaxBoosts
    /\ boosts' = boosts + 1
    /\ boost_until' = add_boost_days(boost_until, u, days, now)
    /\ last' = [op |-> "add", user |-> u, days |-> days, at |-> now]
    /\ UNCHANGED <<now, events, ticks, user_busy, messages, cache, written, req, llm>>

\* await admin_clear_boost(u)
ClearBoost(u) ==
    /\ get_user_boost_until(boost_until, u) # None
    /\ boost_until' = admin_clear_boost(boost_until, u)
    /\ last' = [op |-> "clear", user |-> u, at |-> now]
    /\ UNCHANGED <<now, events, ticks, boosts, user_busy, messages, cache, written, req,
                   llm>>

\* await get_effective_limits(u); ok: the read of boost_until did not raise
GetLimits(u, ok) ==
    /\ last' = [op |-> "limits", user |-> u, ok |-> ok, at |-> now,
                result |-> get_effective_limits(boost_until, u, ok, now)]
    /\ UNCHANGED <<now, events, ticks, boosts, user_busy, boost_until, messages, cache,
                   written, req, llm>>

InitDB ==
    /\ now = 0
    /\ events = 0
    /\ ticks = 0
    /\ boosts = 0
    /\ user_busy = [u \in Users |-> FALSE]
    /\ boost_until = <<>>
    /\ messages = <<>>
    /\ cache = <<>>
    /\ written = <<>>
    /\ req = [i \in Slots |-> NewReq]
    /\ last = Idle
    /\ llm = Idle

NextDB ==
    \/ \E d \in DBTickSteps : DBTick(d)
    \/ InitDb
    \/ \E key \in DBKeys, a \in DBAnswers : Put(key, a)
    \/ \E key \in DBKeys : Get(key)
    \/ \E key \in DBKeys : Del(key)
    \/ \E u \in Payers : EnsureUser(u)
    \/ \E u \in Users, days \in BoostDays : AddBoost(u, days)
    \/ \E u \in Payers : ClearBoost(u)
    \/ \E u \in Users, ok \in BOOLEAN : GetLimits(u, ok)

SpecDB == InitDB /\ [][NextDB]_vars

\* The cache-level specification: the cache functions alone, on the keys of two
\* countries
CacheKeys == DBKeys \cup {<<"franciya">>}

NextCache ==
    \/ \E d \in DBTickSteps : DBTick(d)
    \/ InitDb
    \/ \E key \in CacheKeys, a \in DBAnswers : Put(key, a)
    \/ \E key \in CacheKeys : Get(key)
    \/ \E key \in CacheKeys : Del(key)

SpecCache == InitDB /\ [][NextCache]_vars

----------------------------------------------------------------------------
(* The pipeline-level specification: one call of ask_llm for every combination of
   configuration, message, mode and behaviour of the three services *)

\* the messages ask_llm is called with: a country, a chat question, blanks only
LLMMessages == {<<" ", "GERMANIYA">>, CHAT_TEXT, <<" ">>}
LLMModes == {"country", "chat"}

\* a call of ask_llm that has not returned yet
LLMCalls ==
    [op : {"call"}, user_message : LLMMessages, mode : LLMModes, env : Envs,
     g : GateBehaviours, p : RetrievalBehaviours, rr : RenderBehaviours]

\* ask_llm runs to its end
Ask ==
    /\ llm.op = "call"
    /\ llm' = [op |-> "done", user_message |-> llm.user_message, mode |-> llm.mode,
               env |-> llm.env, g |-> llm.g, p |-> llm.p, rr |-> llm.rr,
               gate |-> _openai_domain_gate(llm.user_message, llm.mode, llm.env, llm.g),
               run |-> ask_llm(llm.user_message, llm.mode, llm.env, llm.g, llm.p,
                               llm.rr)]
    /\ UNCHANGED <<now, events, ticks, boosts, user_busy, boost_until, messages, cache,
                   written, req, last>>

InitLLM ==
    /\ now = 0
    /\ events = 0
    /\ ticks = 0
    /\ boosts = 0
    /\ user_busy = [u \in Users |-> FALSE]
    /\ boost_until = <<>>
    /\ messages = <<>>
    /\ cache = <<>>
    /\ written = <<>>
    /\ req = [i \in Slots |-> NewReq]
    /\ last = Idle
    /\ llm \in LLMCalls

NextLLM == Ask

SpecLLM == InitLLM /\ [][NextLLM]_vars

----------------------------------------------------------------------------
(* The normalizer-level specification: _normalize_sources, _normalize_sections and
   _fallback_render applied to JSON values of every shape *)

\* the entries of a list: URLs written in several ways, strings that are no URL,
\* values that are no string, sections with and without text
NormEntries ==
    {JStr(<<"https://", "w10">>),
     JStr(<<" ", "(", "HTTP://", "w10", ")", ".">>),
     JStr(<<"(", "https://", "w10", " ", ")">>),
     JStr(<<"ftp://", "w10">>),
     JStr(<<"(", ")">>),
     JNum("7"),
     JNull,
     JDict(JStr(<<"Vizy">>), JStr(<<" ", "W60", ".", " ">>)),
     JDict(JStr(<<" ">>), JNull),
     JDict(JNum("7"), JNull)}

\* the values under a key of the retrieval object: lists of up to MaxLen entries,
\* and values that are no list
NormInputs ==
    {JList(l) : l \in UNION {[1..n -> NormEntries] : n \in 0..MaxLen}}
    \cup {JNull, JBool(TRUE), JNum("7"), JStr(<<"https://", "w10">>),
          JDict(JStr(<<"Vizy">>), JNull)}

\* a retrieval object that holds the value under every list key
RawObj(v) ==
    MkObj("answer" :> JStr(<<"W100", ".">>) @@ "clarify" :> v @@ "sources" :> v
          @@ "sections" :> v)

\* ask_llm normalizes the retrieval object
Normalize ==
    /\ last.op = "call"
    /\ last' = [last EXCEPT !.op = "normalized",
                            !.sources = _normalize_sources(last.v),
                            !.sections = _normalize_sections(last.v),
                            !.obj = CleanedObj(RawObj(last.v), last.mode)]
    /\ UNCHANGED <<now, events, ticks, boosts, user_busy, boost_until, messages, cache,
                   written, req, llm>>

\* _fallback_render(cleaned_obj, mode): first is what the first call returned, prev
\* what the latest call of _fallback_render on any object returned; between records
\* that another object was rendered since the first call, again that the object was
\* rendered once more after that
Render ==
    /\ last.op # "call"
    /\ LET r == _fallback_render(last.obj, last.mode)
       IN  last' = [last EXCEPT !.op = "rendered", !.prev = r,
                                !.first = IF @ = None THEN Some(r) ELSE @,
                                !.again = @ \/ last.between]
    /\ UNCHANGED <<now, events, ticks, boosts, user_busy, boost_until, messages, cache,
                   written, req, llm>>

\* _fallback_render on the object of another request
OtherRender(o, mode) ==
    /\ last.op # "call"
    /\ last' = [last EXCEPT !.op = "other",
                            !.prev = _fallback_render(CleanedObj(o, mode), mode),
                            !.between = @ \/ last.first # None]
    /\ UNCHANGED <<now, events, ticks, boosts, user_busy, boost_until, messages, cache,
                   written, req, llm>>

InitNorm ==
    /\ now = 0
    /\ events = 0
    /\ ticks = 0
    /\ boosts = 0
    /\ user_busy = [u \in Users |-> FALSE]
    /\ boost_until = <<>>
    /\ messages = <<>>
    /\ cache = <<>>
    /\ written = <<>>
    /\ req = [i \in Slots |-> NewReq]
    /\ \E v \in NormInputs, mode \in LLMModes :
          last = [op |-> "call", mode |-> mode, v |-> v, sources |-> <<>>,
                  sections |-> <<>>, obj |-> EmptyObj, first |-> None, prev |-> <<>>,
                  between |-> FALSE, again |-> FALSE]
    /\ llm = Idle

NextNorm ==
    \/ Normalize
    \/ Render
    \/ \E o \in {COUNTRY_OBJ, CHAT_OBJ, ODD_OBJ}, mode \in LLMModes : OtherRender(o, mode)

SpecNorm == InitNorm /\ [][NextNorm]_vars

----------------------------------------------------------------------------
(* The gate-level specification: is_country_answer_cacheable applied to answers
   built from an error marker, numbered blocks, topic markers and filler text *)

\* 499 characters of text without markup, list markers or topic markers
F499 == <<"W100", "W100", "W100", "W100", "W60", "W10", "W10", "W10",
          "x", "x", "x", "x", "x", "x", "x", "x", "x">>

\* the parts an answer is built from: the error marker it carries, the number of
\* numbered blocks, the number of topic markers, the filler text
ErrTokens == {"none", "OSHIBKA", "Traceback", "max retries exceeded"}
NumCounts == {0, MIN_NUMS - 1, MIN_NUMS, 8}
MarkCounts == {0, MIN_MARKERS - 1, MIN_MARKERS}
Fillers == {<<>>, F499, <<"<b>">> \o F499 \o <<"</b>">>, <<"W500">>}

\* the answer with these parts
GateText(p) ==
    NumberedBlocks(1, p.n, "W10")
    \o SubSeq(<<"Rabot", " ", "Ucheb", " ", "Stoimost", " ">>, 1, 2 * p.m)
    \o p.fill
    \o (IF p.err = "none" THEN <<>> ELSE <<"\n", p.err>>)

\* is_country_answer_cacheable(text)
Judge ==
    /\ last.op = "call"
    /\ last' = [last EXCEPT !.op = "done",
                            !.verdict = is_country_answer_cacheable(last.text)]
    /\ UNCHANGED <<now, events, ticks, boosts, user_busy, boost_until, messages, cache,
                   written, req, llm>>

InitGate ==
    /\ now = 0
    /\ events = 0
    /\ ticks = 0
    /\ boosts = 0
    /\ user_busy = [u \in Users |-> FALSE]
    /\ boost_until = <<>>
    /\ messages = <<>>
    /\ cache = <<>>
    /\ written = <<>>
    /\ req = [i \in Slots |-> NewReq]
    /\ \E err \in ErrTokens, n \in NumCounts, m \in MarkCounts, fill \in Fillers :
          LET p == [err |-> err, n |-> n, m |-> m, fill |-> fill]
          IN  last = [op |-> "call", p |-> p, text |-> GateText(p), verdict |-> FALSE]
    /\ llm = Idle

SpecGate == InitGate /\ [][Judge]_vars

----------------------------------------------------------------------------
(* The country-level specification: country requests alone, with every kind of
   outcome of call_llm *)

\* the retrieval service answers 200 with a JSON object that has none of the keys
\* "choices", "output_text", "error": a long object whose text names three topics
P_UNEXPECTED_LONG ==
    P("unexpected", NoResp, <<"W500", " ", "rabot", " ", "ucheb", " ", "stoimost">>)

CountryOutcomes ==
    Services \cup {[g |-> G_IN_SCOPE, p |-> P_UNEXPECTED_LONG, rr |-> R_BRIEF]}

NextCountry ==
    \/ \E i \in Slots, u \in Users, q \in CountryQueries : Start(i, u, "country", q)
    \/ \E i \in Slots, ok \in BOOLEAN : Limits(i, ok)
    \/ \E i \in Slots, ok \in BOOLEAN : Count(i, ok)
    \/ \E i \in Slots, ok \in BOOLEAN : Save(i, ok)
    \/ \E i \in Slots, ok \in BOOLEAN : CacheGet(i, ok)
    \/ \E i \in Slots, ok \in BOOLEAN : SendCached(i, ok)
    \/ \E i \in Slots, ok \in BOOLEAN : CacheDel(i, ok)
    \/ \E i \in Slots, ok \in BOOLEAN : Ensure(i, ok)
    \/ \E i \in Slots, ok \in BOOLEAN : Prep(i, ok)
    \/ \E i \in Slots, sv \in CountryOutcomes : LLMReturn(i, sv)
    \/ \E i \in Slots, ok \in BOOLEAN : CacheSave(i, ok)
    \/ \E i \in Slots, ok \in BOOLEAN : Send(i, ok)
    \/ \E d \in TickSteps : Tick(d)

SpecCountry == Init /\ [][NextCountry]_vars

----------------------------------------------------------------------------
(* The retry-level specification: the HTTP attempts that the adapter mounted on
   _session makes for one _session.post of _perplexity_json *)

\* what one HTTP attempt can end with: a status, or a transport error
ConnectErrors == {"connect_timeout", "connect_refused"}
ReadErrors == {"read_timeout"}
AttemptOutcomes == {"200", "400"} \cup STATUS_FORCELIST \cup ConnectErrors \cup ReadErrors

\* Retry.is_retry and the error branches of urlopen: the attempt is one that the
\* Retry object counts and repeats (POST is in allowed_methods)
Retryable(o) == o \in STATUS_FORCELIST \cup ConnectErrors \cup ReadErrors

\* Retry.is_exhausted with three retries used up instead of more than three
Exhausted_at_zero(c) == c.total <= 0 \/ c.connect <= 0 \/ c.read <= 0

\* Retry.is_exhausted: one of the counters has gone below zero
Exhausted(c) == c.total < 0 \/ c.connect < 0 \/ c.read < 0

\* Retry.increment: the counters after an attempt that ended with o
Increment(c, o) ==
    [total |-> c.total - 1,
     connect |-> IF o \in ConnectErrors THEN c.connect - 1 ELSE c.connect,
     read |-> IF o \in ReadErrors THEN c.read - 1 ELSE c.read]

\* what _session.post hands to _perplexity_json when the last attempt ended with o:
\* the response (raise_on_status is False), or the exception that requests raises
Surfaced(o) ==
    CASE o = "200" -> P_COUNTRY
      [] o = "connect_timeout" -> P("timeout", NoResp, <<>>)
      [] o \in {"connect_refused", "read_timeout"} -> P("conn", NoResp, <<>>)
      [] OTHER -> P("http_error", NoResp, <<"W40">>)

\* one HTTP attempt of the POST ends with o: the adapter retries after its backoff,
\* or _session.post ends and _perplexity_json returns
Attempt(o) ==
    /\ last.op = "post"
    /\ LET c == Increment(last.c, o)
       IN  IF Retryable(o) /\ ~Exhausted(c)
           THEN last' = [last EXCEPT !.tries = Append(@, o), !.c = c]
           ELSE last' = [last EXCEPT !.op = "done", !.tries = Append(@, o), !.c = c,
                            !.result = Some(_perplexity_json(<<"Germaniya">>, ENV_ALL,
                                                             Surfaced(o)))]
    /\ UNCHANGED <<now, events, ticks, boosts, user_busy, boost_until, messages, cache,
                   written, req, llm>>

InitRetry ==
    /\ now = 0
    /\ events = 0
    /\ ticks = 0
    /\ boosts = 0
    /\ user_busy = [u \in Users |-> FALSE]
    /\ boost_until = <<>>
    /\ messages = <<>>
    /\ cache = <<>>
    /\ written = <<>>
    /\ req = [i \in Slots |-> NewReq]
    /\ last = [op |-> "post", tries |-> <<>>,
               c |-> [total |-> RETRY_TOTAL, connect |-> RETRY_CONNECT, read |-> RETRY_READ],
               result |-> None]
    /\ llm = Idle

NextRetry == \E o \in AttemptOutcomes : Attempt(o)

SpecRetry == InitRetry /\ [][NextRetry]_vars

----------------------------------------------------------------------------
(* Claims checked under Spec *)

\* a call_llm pipeline run of the request is in flight
InFlight(r) == r.pc = "llm"

\* C1: for any one user at most one call_llm pipeline run is in flight at any time:
\* a request that arrives while an earlier request of the same user has not finished
\* gets the busy reply and starts no second pipeline run.
C1_SingleFlight ==
    \A i, j \in Slots :
        (i # j /\ req[i].user = req[j].user /\ InFlight(req[i])) => ~InFlight(req[j])

\* the request leaves its guarded block in this step
LeavesBlock(i) == InBlock(req[i]) /\ ~InBlock(req'[i])

\* C2: every exit of the guarded block (normal completion, the cache-hit return, an
\* exception of a step inside the block) ends the handler with user_busy[user] false,
\* and the flag is never left true without a guarded block of that user executing, so
\* a request that arrives after the first has finished is not rejected as busy.
C2_BusyReleased ==
    /\ [](\A u \in Users : user_busy[u] => \E i \in Slots : req[i].user = u /\ InBlock(req[i]))
    /\ [][\A i \in Slots :
            LeavesBlock(i) => (req'[i].pc = "done" /\ ~user_busy'[req[i].user])]_vars

\* a request left its block by an exception, and a later request of the same user
\* was admitted into its block
C2_Witness ==
    \E i, j \in Slots :
        /\ i < j
        /\ req[i].user = req[j].user
        /\ req[i].pc = "done" /\ req[i].reply = "failed"
        /\ InBlock(req[j])

\* the number of a user's persisted role=user messages of a mode dated today (UTC)
CountedToday(u, mode) ==
    BagCount(messages, {x \in DOMAIN messages :
                            /\ x.user = u /\ x.role = "user" /\ x.mode = mode
                            /\ x.created_at \div UnitsPerDay = now \div UnitsPerDay})

\* the request gets the result of its count and makes the quota check in this step
CountStep(i) == req[i].pc = "count" /\ req'[i].pc # "count"

\* the request is rejected with the quota message, before any pipeline run, exactly
\* when the count is at least the effective limit
QuotaDecision(i) ==
    /\ (req'[i].reply = "quota") <=> (CountedToday(req[i].user, ModeOf(req[i])) >= req[i].eff)
    /\ req'[i].reply = "quota" => (req'[i].pc = "done" /\ req[i].calls = <<>>)

QuotaReadsOk(i) == "limits" \notin req[i].failed /\ "count" \notin req'[i].failed

----------------------------------------------------------------------------
(* Claims checked under SpecDB *)

\* the two limits of a result of get_effective_limits
LimitPair(r) == <<r.chat, r.country>>

\* the user of the last call has a boost_until, and the read of it did not raise
BoostRead == last.ok /\ get_user_boost_until(boost_until, last.user) # None

\* C4: get_effective_limits returns the boosted pair (chat 30, country 20) exactly
\* when boost_until is present and strictly later than now, and the base pair
\* (chat 20, country 10) otherwise: boost_until absent, equal to now, in the past,
\* or a failed read; the two limits switch together.
C4_EffectiveLimits ==
    last.op = "limits" =>
        IF BoostRead /\ The(boost_until[last.user]) > last.at
        THEN LimitPair(last.result) = <<30, 20>>
        ELSE LimitPair(last.result) = <<20, 10>>

\* get_effective_limits was called at the very time at which the boost runs out
C4_Witness ==
    /\ last.op = "limits"
    /\ BoostRead
    /\ The(boost_until[last.user]) = last.at
    /\ LimitPair(last.result) = <<20, 10>>

\* this step is a call of add_boost_days
AddStep == boosts' = boosts + 1

\* C5: add_boost_days(user, N) on an existing user sets boost_until to the old
\* boost_until + N days when the old value is in the future, and to now + N days when
\* the old value is absent or not later than now; so boost_until never moves
\* backwards in an extension and is never computed from a base in the past.
C5_BoostStacks ==
    [][\A u \in DOMAIN boost_until :
          (AddStep /\ last'.user = u) =>
              LET old == boost_until[u]
                  new == boost_until'[u]
                  N == Days(last'.days)
              IN  /\ new = Some(IF old # None /\ The(old) > now THEN The(old) + N
                                ELSE now + N)
                  /\ old # None => The(new) > The(old)
                  /\ The(new) >= now + N]_vars

\* a boost that was still running was extended: the new end lies more than N days
\* after the time of the extension
C5_Witness ==
    /\ last.op = "add"
    /\ get_user_boost_until(boost_until, last.user) # None
    /\ The(boost_until[last.user]) > last.at + Days(last.days)

\* the put that the last call of get_cached_country_info has to see: the latest put
\* of the key that no delete followed
PutSeen == written[lower(strip(last.key))]

\* C6: after save_cached_country_info(key, q, a), get_cached_country_info(key) returns
\* a as long as the clock has advanced by no more than the TTL since the put and no
\* later put or delete touched the key; once more than the TTL has elapsed, and when
\* there is no put, it returns absent. A key is the same key in every spelling that
\* differs in case and surrounding blanks only.
C6_CacheRoundTrip ==
    last.op = "get" =>
        IF lower(strip(last.key)) \in DOMAIN written /\ last.at - PutSeen.at <= TTL
        THEN last.result = Some(PutSeen.answer)
        ELSE last.result = None

\* a get exactly TTL after the put returned the answer
C6_Witness ==
    /\ last.op = "get"
    /\ lower(strip(last.key)) \in DOMAIN written
    /\ last.at - PutSeen.at = TTL
    /\ last.result = Some(PutSeen.answer)

----------------------------------------------------------------------------
(* Claims checked under SpecLLM *)

\* C9: ask_llm terminates and returns a non-null string without raising, for every
\* combination of outcomes of its three stages: gate absent, in scope, out of scope
\* or raising; retrieval returning an error string, unparsable text or a parsed
\* object of any shape; renderer returning text, empty output or raising.
C9_AskNeverRaises ==
    llm.op = "done" => (llm.run.kind = "ret" /\ llm.run.v \in Seq(STRING))

\* the gate raised, the retrieval returned an object that violates the schema in
\* every field, the renderer raised, and ask_llm returned the fallback rendering
C9_Witness ==
    /\ llm.op = "done"
    /\ llm.env = ENV_ALL /\ strip(llm.user_message) # <<>>
    /\ llm.g = G_RAISES /\ llm.p = P_ODD /\ llm.rr = R_RAISES
    /\ llm.run.calls = <<"gate", "retrieval", "render">>
    /\ llm.run.kind = "ret"

\* the gate is disabled, has no credential, its call raises or times out, or its
\* response does not parse as a JSON object
GateFails == ~llm.env.gate_enabled \/ ~llm.env.openai_key \/ llm.g \in GateFailures

\* the same call with the gate switched on and answering that the request is in scope
InScopeRun ==
    ask_llm(llm.user_message, llm.mode, [llm.env EXCEPT !.gate_enabled = TRUE],
            G_IN_SCOPE, llm.p, llm.rr)

\* the calls of a run after the gate
AfterGate(calls) == SelectSeq(calls, LAMBDA c : c # "gate")

\* C10: the domain gate is fail-open: when the gate is disabled, has no credential,
\* its call raises or times out, or its response does not parse as a JSON object, the
\* gate result is absent and ask_llm proceeds to the retrieval step exactly as if the
\* request were in scope; a gate failure never blocks the user and never becomes the
\* returned answer.
C10_GateFailOpen ==
    (llm.op = "done" /\ GateFails) =>
        /\ llm.gate = Ret(None)
        /\ llm.run.kind = "ret"
        /\ llm.run.v = InScopeRun.v
        /\ AfterGate(llm.run.calls) = AfterGate(InScopeRun.calls)
        /\ RetrievalCalled(llm.user_message, llm.env) => "retrieval" \in
                {llm.run.calls[k] : k \in DOMAIN llm.run.calls}

\* the gate was called and raised, and the retrieval was called
C10_Witness ==
    /\ llm.op = "done"
    /\ llm.env = ENV_ALL /\ llm.g = G_RAISES
    /\ llm.gate = Ret(None)
    /\ Len(llm.run.calls) >= 2
    /\ llm.run.calls[1] = "gate" /\ llm.run.calls[2] = "retrieval"

\* the gate was called and its response is a JSON object with in_scope false
GateSaysOut ==
    /\ GateCalled(llm.user_message, llm.env)
    /\ ~llm.g.raises
    /\ llm.g.resp.loads # None
    /\ The(llm.g.resp.loads).val["in_scope"] = JBool(FALSE)

\* the reply that the gate's response carries, trimmed
ModelReply == strip(The(llm.g.resp.loads).val["reply"].s)

\* C11: when the gate reports in_scope=false, ask_llm returns the model-supplied
\* reply, or the fixed per-mode default string when that reply is empty; neither the
\* retrieval call nor the renderer call is made; the returned string is never empty.
C11_OutOfScopeReply ==
    (llm.op = "done" /\ GateSaysOut) =>
        /\ llm.run.kind = "ret"
        /\ llm.run.v = IF ModelReply # <<>> THEN ModelReply
                       ELSE IF llm.mode = "country" THEN GATE_DEFAULT_COUNTRY
                       ELSE GATE_DEFAULT_CHAT
        /\ llm.run.v # <<>>
        /\ llm.run.calls = <<"gate">>

\* the gate answered out of scope with a blank reply, and ask_llm returned the default
\* string of the country mode
C11_Witness ==
    /\ llm.op = "done"
    /\ GateSaysOut
    /\ ModelReply = <<>>
    /\ llm.mode = "country"
    /\ llm.run.v = GATE_DEFAULT_COUNTRY

\* the gate did not stop the run: ask_llm reached its retrieval step
ReachedRetrieval == llm.op = "done" /\ ~GateSaysOut

\* what _perplexity_json returned in the run
Retrieved == _perplexity_json(llm.user_message, llm.env, llm.p)

\* missing credential, empty input, HTTP error status, non-JSON body, model error
\* object, unexpected body, timeout, connection or TLS failure, another exception, or
\* a response text that does not parse to a JSON object with at least one key
NoObjectCase ==
    \/ ~llm.env.pplx_key
    \/ strip(llm.user_message) = <<>>
    \/ llm.p.kind \in {"http_error", "not_json", "error", "unexpected", "timeout",
                       "conn", "ssl", "exc"}
    \/ llm.p.resp.loads = None
    \/ The(llm.p.resp.loads).keys = {}

\* C12: retrieval is fail-closed: _perplexity_json returns either a parsed object
\* (with the raw text it was parsed from) or a final user-facing string with no
\* object, never both; whenever it returns no object (missing credential, empty
\* input, HTTP error status, non-JSON body, model error object, timeout, connection
\* or TLS failure, or response text that does not parse to a JSON object) ask_llm
\* returns that string unchanged and calls neither the renderer nor the fallback
\* renderer.
C12_RetrievalFailClosed ==
    ReachedRetrieval =>
        /\ Retrieved.kind = "ret"
        /\ NoObjectCase <=> Retrieved.v.obj = None
        /\ Retrieved.v.obj # None => Retrieved.v.text = strip(llm.p.resp.text)
        /\ NoObjectCase =>
              /\ llm.run.kind = "ret"
              /\ llm.run.v = Retrieved.v.text
              /\ \A k \in DOMAIN llm.run.calls : llm.run.calls[k] # "render"

\* the retrieval timed out after the gate let the request pass, and ask_llm returned
\* the timeout message
C12_Witness ==
    /\ llm.op = "done"
    /\ llm.env = ENV_ALL /\ llm.g = G_IN_SCOPE /\ llm.p.kind = "timeout"
    /\ strip(llm.user_message) # <<>>
    /\ llm.run.v = ERR_TIMEOUT
    /\ llm.run.calls = <<"gate", "retrieval">>

\* the text the renderer hands back: its output trimmed and cleaned; empty when
\* there is no credential or the call raises
RendererText ==
    IF llm.env.openai_key /\ ~llm.rr.raises THEN _cleanup_text(strip(llm.rr.text))
    ELSE <<>>

\* C13: when retrieval returned a parsed object, ask_llm returns the renderer's text
\* if the renderer produced non-empty output, and otherwise (no renderer credential,
\* renderer exception, or empty output) returns exactly _fallback_render of the same
\* normalized object; a renderer failure never reaches the caller as an exception or
\* an error string.
C13_RenderOrFallback ==
    (ReachedRetrieval /\ ~NoObjectCase) =>
        /\ llm.run.kind = "ret"
        /\ llm.run.v = IF RendererText # <<>> THEN RendererText
                       ELSE _fallback_render(CleanedObj(The(llm.p.resp.loads), llm.mode),
                                             llm.mode)

\* the renderer raised on a country object, and ask_llm returned the non-empty
\* fallback rendering
C13_Witness ==
    /\ llm.op = "done"
    /\ llm.env = ENV_ALL /\ llm.g = G_IN_SCOPE /\ llm.p = P_COUNTRY /\ llm.rr = R_RAISES
    /\ llm.mode = "country" /\ strip(llm.user_message) # <<>>
    /\ llm.run.calls = <<"gate", "retrieval", "render">>
    /\ llm.run.v # <<>>
    /\ llm.run.v = _fallback_render(CleanedObj(COUNTRY_OBJ, "country"), "country")

----------------------------------------------------------------------------
(* Claims checked under Spec: the order of the steps of a request *)

\* the quota check of a request: get_effective_limits and the count of today's rows
AtQuotaCheck(r) == r.pc \in {"limits", "count"}

\* the steps of a request after its quota check
PastQuotaCheck(r) == r.pc = "save" \/ InBlock(r)

\* C16: the guard admits a request before its quota is checked and is held from
\* admission to release: a request at its quota check or at any later step before
\* its end holds the flag of its user
C16_GuardHeldFromAdmission ==
    \A i \in Slots :
        (AtQuotaCheck(req[i]) \/ PastQuotaCheck(req[i])) => user_busy[req[i].user]

\* the request is told in this step that its quota is used up or that the user is busy
Rejected(i) == req[i].reply = "none" /\ req'[i].reply \in {"quota", "busy"}

\* C17: a request rejected for its quota or for a request of the same user in
\* progress ends with that reply at the busy check or the quota check: it has made
\* no call_llm and makes none later, and the rejecting step writes nothing to the cache
C17_RejectedShortCircuits ==
    [][\A i \in Slots :
          /\ Rejected(i) =>
                /\ req[i].pc \in {"new", "count"}
                /\ req[i].calls = <<>> /\ req[i].answer = <<>>
                /\ req'[i].pc = "done"
                /\ cache' = cache /\ written' = written
          /\ req[i].reply \in {"quota", "busy"} => req'[i] = req[i]]_vars

\* a request got the busy reply while the request of the same user that holds the
\* flag is in call_llm
C17_Witness ==
    \E i, j \in Slots :
        /\ req[i].pc = "done" /\ req[i].reply = "busy"
        /\ req[j].user = req[i].user /\ InFlight(req[j])

----------------------------------------------------------------------------
(* Claims checked under SpecCache *)

\* a call of save_cached_country_info, of get_cached_country_info
PutStep == last'.op = "put" /\ now' = now
GetStep == last'.op = "get" /\ now' = now

\* trimmed and lowercased
NormKey(k) == lower(strip(k))

\* C18: after any sequence of puts the cache holds at most one entry for each
\* trimmed, lowercased key; a put under any spelling of a key leaves the entry of
\* that key with the answer of the put and created_at at the time of the put; and
\* right after a put no entry older than the TTL remains, while the other entries
\* within the TTL stay as they were
C18_CachePut ==
    /\ [](\A k \in DOMAIN cache :
              /\ k = NormKey(k)
              /\ Cardinality({x \in DOMAIN cache : NormKey(x) = NormKey(k)}) = 1)
    /\ [][PutStep =>
            LET key == NormKey(last'.key)
            IN  /\ key \in DOMAIN cache'
                /\ cache'[key].created_at = now
                /\ cache'[key].answer = written'[key].answer
                /\ \A k \in DOMAIN cache' : ~(cache'[k].created_at < now - TTL)
                /\ \A k \in DOMAIN cache \ {key} :
                      ~(cache[k].created_at < now - TTL) =>
                          (k \in DOMAIN cache' /\ cache'[k] = cache[k])]_vars

\* a put under another spelling replaced the answer of an entry stored earlier and
\* reset its created_at, and the entry of the other country, older than the TTL, is gone
C18_Witness ==
    /\ last.op = "put" /\ last.key = <<" ", "Germaniya", " ">> /\ last.at = now
    /\ DOMAIN cache = {<<"germaniya">>}
    /\ cache[<<"germaniya">>].created_at = now
    /\ cache[<<"germaniya">>].answer = <<"b">>
    /\ <<"franciya">> \in DOMAIN written
    /\ written[<<"franciya">>].at < now - TTL

\* C19: get_cached_country_info leaves every entry of the cache as it is, so an
\* entry disappears or changes only in a put, a delete or the sweep of init_db
C19_GetLeavesCache ==
    [][/\ GetStep => cache' = cache
       /\ \A k \in DOMAIN cache :
             (k \notin DOMAIN cache' \/ cache'[k] # cache[k]) =>
                 (last'.op \in {"put", "del", "init_db"} /\ now' = now)]_vars

\* an entry older than the TTL was read as a miss and is still stored
C19_Witness ==
    /\ last.op = "get" /\ last.at = now
    /\ last.result = None
    /\ NormKey(last.key) \in DOMAIN cache
    /\ cache[NormKey(last.key)].created_at < now - TTL

----------------------------------------------------------------------------
(* Claims checked under SpecNorm *)

Normalized == last.op # "call"

\* the entries of the value handed to the normalizers, none when it is no list
EntriesIn == IF last.v.t = "list" THEN last.v.items ELSE <<>>

\* what a URL entry reads once blanks and wrapping punctuation are taken off
Unwrapped(x) == rstripSet(lstripSet(strip(x.s), StripSet), StripSet)

ValidSource(x) ==
    /\ x.t = "str"
    /\ Unwrapped(x) # <<>>
    /\ lower(<<Head(Unwrapped(x))>>) \in {<<"http://">>, <<"https://">>}

SectionOf(x) == [title |-> strip(StrOrEmpty(x.items[1])), body |-> strip(StrOrEmpty(x.items[2]))]

ValidSection(x) == x.t = "dict" /\ (SectionOf(x).title # <<>> \/ SectionOf(x).body # <<>>)

\* out holds, in the order of the input, one entry for each input entry in keep
KeptInOrder(out, keep, image(_)) ==
    /\ Len(out) = Cardinality(keep)
    /\ \E f \in [DOMAIN out -> keep] :
          /\ \A j, k \in DOMAIN out : j < k => f[j] < f[k]
          /\ \A k \in DOMAIN out : out[k] = image(EntriesIn[f[k]])

\* C14: whatever value the normalizers are given, every entry of the result of
\* _normalize_sources begins with http:// or https:// in any letter case, every
\* entry of the result of _normalize_sections is a title and a body of which one is
\* not empty, and the results hold exactly the valid entries of the input in their
\* order
C14_NormalizedObject ==
    Normalized =>
        /\ \A k \in DOMAIN last.sources :
              /\ last.sources[k] # <<>>
              /\ lower(<<last.sources[k][1]>>) \in {<<"http://">>, <<"https://">>}
        /\ \A k \in DOMAIN last.sections :
              /\ DOMAIN last.sections[k] = {"title", "body"}
              /\ last.sections[k].title # <<>> \/ last.sections[k].body # <<>>
        /\ KeptInOrder(last.sources, {i \in DOMAIN EntriesIn : ValidSource(EntriesIn[i])},
                       Unwrapped)
        /\ KeptInOrder(last.sections, {i \in DOMAIN EntriesIn : ValidSection(EntriesIn[i])},
                       SectionOf)

\* a list of a URL in capitals wrapped in brackets and a section with a title only:
\* each normalizer keeps its entry and drops the other
C14_Witness ==
    /\ Normalized
    /\ last.v = JList(<<JStr(<<" ", "(", "HTTP://", "w10", ")", ".">>), JDict(JNum("7"), JNull)>>)
    /\ last.sources = <<(<<"HTTP://", "w10">>)>>
    /\ last.sections = <<[title |-> <<"7">>, body |-> <<>>]>>

\* a call of _fallback_render on the normalized object
RenderStep == last.op # "call" /\ last'.op = "rendered"

----------------------------------------------------------------------------
(* Claims checked under Spec, continued *)

\* the request gets the result of its cache read in this step
CacheGetStep(i) == req[i].pc = "cacheget" /\ req'[i].pc # "cacheget"

\* the answer that an earlier country request stored for the country of request i,
\* not deleted since and stored no more than the TTL ago; None when there is none
StoredFor(i) ==
    LET key == lower(strip(req[i].text))
    IN  IF key \in DOMAIN written /\ written[key].by = "request"
           /\ now - written[key].at <= TTL
        THEN Some(written[key].answer) ELSE None

\* the request goes on to send exactly the stored rendering, having made no call
ServedFromCache(i) ==
    /\ req'[i].pc = "sendcached"
    /\ req'[i].cached = StoredFor(i)
    /\ req'[i].calls = <<>>

\* a request that sends the cached rendering ends without a gate, retrieval or
\* render call
CachedReplyNoCalls(i) ==
    (req[i].pc = "sendcached" /\ req'[i].pc # "sendcached")
        => (req'[i].pc = "done" /\ req'[i].reply \in {"cached", "failed"}
            /\ req[i].calls = <<>>)

PlainOf(a) == strip(StripTags(a))

\* shorter than the minimum length and without a numbered-list marker
ShortNoList(a) == StrLen(PlainOf(a)) < MIN_PLAIN_LEN /\ CountNums(StripTags(a)) = 0

\* eight numbered section headings at line starts, plain text longer than the length
\* threshold, no error marker
EightSections(a) ==
    /\ CountNums(StripTags(a)) = 8
    /\ StrLen(PlainOf(a)) > MIN_PLAIN_LEN
    /\ \A x \in BadMarkers : ~Contains(lower(a), x)

\* answers of every kind the gate tells apart
SampleAnswers == {<<>>, BRIEF8, BRIEF8_SHORT, SHORT_TEXT, LONG_PLAIN, LONG_TRACEBACK,
                  APOLOGY, ERR_TIMEOUT, GATE_DEFAULT_COUNTRY, <<" ">> \o BRIEF8 \o <<"\n">>}

\* the verdicts of is_country_answer_cacheable on the sample answers
JudgedRight ==
    \A a \in SampleAnswers :
        /\ ShortNoList(a) => ~is_country_answer_cacheable(a)
        /\ EightSections(a) => is_country_answer_cacheable(a)

\* the call_llm of a country request returns in this step
AnswerStep(i) ==
    req[i].pc = "llm" /\ req[i].handler = "country" /\ req'[i].pc \in {"cachesave", "send"}

\* the handler goes on to store the answer exactly when the gate admits it
GateDecides(i) ==
    /\ ShortNoList(req'[i].answer) => req'[i].pc = "send"
    /\ EightSections(req'[i].answer) => req'[i].pc = "cachesave"

\* every row that a step puts into the cache is no short answer without list markers
NoShortStored ==
    \A k \in DOMAIN cache' :
        (k \notin DOMAIN cache \/ cache'[k] # cache[k]) => ~ShortNoList(cache'[k].answer)

\* the cache write of request i leaves its answer in the cache
StoredAfter(i) ==
    LET key == lower(strip(req[i].text))
    IN  key \in DOMAIN cache' /\ cache'[key].answer = req[i].answer
        /\ cache'[key].created_at = now

\* the request gets the result of its cache write in this step
CacheSaveStep(i) == req[i].pc = "cachesave" /\ req'[i].pc # "cachesave"

StaleFor(i) ==
    LET key == lower(strip(req[i].text))
    IN  /\ key \in DOMAIN cache
        /\ cache[key].created_at >= now - TTL
        /\ ~is_country_answer_cacheable(cache[key].answer)

CacheDelStep(i) == req[i].pc = "cachedel" /\ req'[i].pc # "cachedel"

\* C20: a country request that reads an entry within the TTL whose answer fails the
\* quality gate does not send it and goes on to delete it; after the delete,
\* whether it succeeded or raised, the request goes on to ensure_user and the
\* pipeline run; the entry is gone when the delete succeeded.  Only answers that
\* pass the gate are sent from the cache.
C20_StaleCachedAnswer ==
    [][\A i \in Slots :
          /\ (CacheGetStep(i) /\ StaleFor(i) /\ "cacheget" \notin req'[i].failed) =>
                (req'[i].pc = "cachedel" /\ req'[i].cached = None /\ req'[i].reply = "none")
          /\ CacheDelStep(i) =>
                /\ req'[i].pc = "ensure" /\ req'[i].reply = "none"
                /\ IF "cachedel" \in req'[i].failed THEN cache' = cache
                   ELSE lower(strip(req[i].text)) \notin DOMAIN cache'
          /\ req'[i].pc = "sendcached" =>
                (req'[i].cached # None /\ is_country_answer_cacheable(The(req'[i].cached)))
          /\ (req[i].pc = "cachedel" /\ req'[i].pc = "cachedel") => req'[i] = req[i]]_vars

\* the delete of an entry that fails the gate raised, the entry is still stored, and
\* the request goes on
C20_Witness ==
    \E i \in Slots :
        /\ req[i].pc = "ensure" /\ req[i].failed = {"cachedel"}
        /\ lower(strip(req[i].text)) \in DOMAIN cache
        /\ cache[lower(strip(req[i].text))].answer = SHORT_TEXT
        /\ cache[lower(strip(req[i].text))].created_at >= now - TTL

----------------------------------------------------------------------------
(* Claims checked under SpecGate *)

Judged == last.op = "done"

\* the answer carries an error marker; its plain text is under the minimum length;
\* it has the numbered-list markers, the topic markers that count as structure
HasErrorMarker == last.p.err # "none"
UnderMinLen == StrLen(PlainOf(last.text)) < MIN_PLAIN_LEN
HasStructure == last.p.n >= MIN_NUMS \/ last.p.m >= MIN_MARKERS

\* C21 as stated: an answer with an error marker is rejected; otherwise an answer
\* under the minimum length is rejected unless it has at least 6 numbered-list
\* markers or the minimum count of topic markers, and an answer at or above the
\* minimum length is accepted
C21_GateAsStated ==
    Judged =>
        last.verdict = IF HasErrorMarker THEN FALSE
                       ELSE IF UnderMinLen THEN HasStructure
                       ELSE TRUE

\* C21 as the code has it: an answer is accepted exactly when it carries no error
\* marker, its markup-stripped text reaches the minimum length, and that text has
\* at least 6 numbered-list markers or the minimum count of topic markers
C21_GateAsCoded ==
    Judged => (last.verdict <=> (~HasErrorMarker /\ ~UnderMinLen /\ HasStructure))

\* an answer of the minimum length without list markers is accepted on its topic
\* markers
C21_Witness ==
    /\ Judged /\ last.verdict
    /\ last.p.n = 0 /\ last.p.m = MIN_MARKERS
    /\ last.p.fill = F499

----------------------------------------------------------------------------
(* Claims checked under SpecCountry *)

\* the strings _perplexity_json returns in place of an object when the call failed
RetrievalErrorStrings ==
    {_perplexity_json(<<"Germaniya">>, env, p).v.text :
        env \in {ENV_ALL, [ENV_ALL EXCEPT !.pplx_key = FALSE]},
        p \in {x \in RetrievalBehaviours \cup {P_UNEXPECTED_LONG} :
                  x.kind \notin {"choices", "output_text"}}}

\* the replies of a gate that redirects
RedirectReplies ==
    {The(_openai_domain_gate(<<"Germaniya">>, "country", ENV_ALL, g).v).reply :
        g \in {G_REDIRECT, G_REDIRECT_EMPTY}}

\* C22: no answer in the cache is a retrieval error string, the generic
\* network-error replacement or a gate redirect reply, and a request about to send
\* a cached answer holds none of them
C22_NoErrorReplyStored ==
    /\ \A k \in DOMAIN cache :
          cache[k].answer \notin RetrievalErrorStrings \cup {APOLOGY} \cup RedirectReplies
    /\ \A i \in Slots :
          req[i].pc = "sendcached" =>
              The(req[i].cached) \notin RetrievalErrorStrings \cup {APOLOGY} \cup RedirectReplies

----------------------------------------------------------------------------
(* Claims checked under SpecLLM: the order of the calls *)

\* the stage of a network call
StageOf(c) == CASE c = "gate" -> 1 [] c = "retrieval" -> 2 [] c = "render" -> 3

Made(c) == \E k \in DOMAIN llm.run.calls : llm.run.calls[k] = c

\* C23: the network calls of one ask_llm run are made one after the other in the
\* order gate, retrieval, render, each at most once; the retrieval call is made only
\* when the gate did not end the run, and the render call only after a retrieval
\* call that returned a parsed object
C23_CallsInOrder ==
    llm.op = "done" =>
        /\ \A j, k \in DOMAIN llm.run.calls :
              j < k => StageOf(llm.run.calls[j]) < StageOf(llm.run.calls[k])
        /\ Made("retrieval") => ~GateSaysOut
        /\ Made("gate") <=> GateCalled(llm.user_message, llm.env)
        /\ Made("render") =>
              (Made("retrieval") /\ ~GateSaysOut /\ ~NoObjectCase
               /\ Retrieved.v.obj # None)

\* a run that made all three calls and returned the rendered text
C23_Witness ==
    /\ llm.op = "done"
    /\ llm.run.calls = <<"gate", "retrieval", "render">>
    /\ llm.rr = R_BRIEF
    /\ llm.run.v = BRIEF8

\* C24: when PPLX_API_KEY is missing, _perplexity_json returns the configuration
\* error string and no object; a run that reaches the retrieval step makes no
\* retrieval call and no render call and returns that string
C24_MissingKey ==
    (llm.op = "done" /\ ~llm.env.pplx_key) =>
        /\ Retrieved = Ret(Pair(None, ERR_NO_KEY))
        /\ ~RetrievalCalled(llm.user_message, llm.env)
        /\ ~GateSaysOut =>
              /\ llm.run.kind = "ret" /\ llm.run.v = ERR_NO_KEY
              /\ ~Made("retrieval") /\ ~Made("render")

\* the key is missing, the message is blank, and the run returned the configuration
\* error string
C24_Witness ==
    /\ llm.op = "done" /\ ~llm.env.pplx_key
    /\ strip(llm.user_message) = <<>>
    /\ llm.run.v = ERR_NO_KEY
    /\ llm.run.calls = <<>>

----------------------------------------------------------------------------
(* Claims checked under SpecRetry *)

Attempts == Len(last.tries)

\* every attempt but the latest ended with a transport error or a status of the
\* force list
RetriedOnlyRetryable == \A k \in 1..(Attempts - 1) : Retryable(last.tries[k])

\* the POST is over and its last attempt failed: an error string and no object
FailureSurfaced ==
    (last.op = "done" /\ last.tries[Attempts] # "200") =>
        /\ The(last.result).kind = "ret"
        /\ The(last.result).v.obj = None
        /\ The(last.result).v.text # <<>>

\* C25 as stated: transport errors and the statuses 429, 500, 502, 503, 504 are
\* retried, one retrieval call makes at most 3 attempts, and after the last attempt
\* the failure is an error string
C25_RetryAsStated ==
    /\ Attempts <= 3
    /\ RetriedOnlyRetryable
    /\ FailureSurfaced

\* C25 as the code has it: one retrieval call makes at most 4 attempts, the first
\* and 3 retries; it gives up earlier only on an attempt that ended with a success
\* or with a status outside the force list
C25_RetryAsCoded ==
    /\ Attempts <= RETRY_TOTAL + 1
    /\ RetriedOnlyRetryable
    /\ FailureSurfaced
    /\ last.op = "post" => (Attempts <= RETRY_TOTAL /\ \A k \in 1..Attempts : Retryable(last.tries[k]))
    /\ (last.op = "done" /\ Retryable(last.tries[Attempts])) => Attempts = RETRY_TOTAL + 1

\* the POST ended after a fourth attempt that got status 503, with the HTTP error string
C25_Witness ==
    /\ last.op = "done"
    /\ Attempts = 4
    /\ last.tries[1] = "connect_timeout" /\ last.tries[4] = "503"
    /\ StartsWith(The(last.result).v.text, "Oshibka")

----------------------------------------------------------------------------
(* The render-level specification: ask_llm cleans a retrieval object and
   _fallback_render renders it, for objects with more entries than the slices keep *)

\* the answers of the object: as received, and stripped
RenderAnswers ==
    {[raw |-> <<>>, text |-> <<>>],
     [raw |-> <<" ", "\n">>, text |-> <<>>],
     [raw |-> <<" ", "W100", ".", " ">>, text |-> <<"W100", ".">>]}

\* the numbers of valid clarify items and of valid sources in the object
ClarifyCounts == {0, 1, 2, 3}
SourceCounts == {0, 1, 10, 11}

\* the i-th valid clarify item and source
ClarifyItem(i) == <<"W10", ToString(i), "?">>
SourceUrl(i) == <<"https://", ToString(i)>>

\* section lists of the object: title and body as received (t, b), and stripped
RenderSections ==
    {<<>>,
     <<[t |-> <<" ">>, b |-> <<>>, title |-> <<>>, body |-> <<>>]>>,
     <<[t |-> <<" ", "Vizy">>, b |-> <<"W60", ".", "\n">>, title |-> <<"Vizy">>,
        body |-> <<"W60", ".">>]>>,
     <<[t |-> <<"Rabota">>, b |-> <<>>, title |-> <<"Rabota">>, body |-> <<>>],
       [t |-> <<>>, b |-> <<" ">>, title |-> <<>>, body |-> <<>>],
       [t |-> <<" ">>, b |-> <<"W40", ".">>, title |-> <<>>, body |-> <<"W40", ".">>],
       [t |-> <<"Vizy">>, b |-> <<"W60", ".">>, title |-> <<"Vizy">>,
        body |-> <<"W60", ".">>]>>}

\* the retrieval object of the parameters p: its lists hold the valid entries in
\* order between entries the normalizers drop
RenderObj(p) ==
    MkObj("answer" :> JStr(p.answer.raw)
          @@ "clarify" :> JList(<<JStr(<<" ">>)>>
                                \o [i \in 1..p.nclarify |-> JStr(<<" ">> \o ClarifyItem(i))]
                                \o <<JNum("7")>>)
          @@ "sources" :> JList(<<JStr(<<"ftp://", "w10">>)>>
                                \o [i \in 1..p.nsources |->
                                       JStr(<<"(">> \o SourceUrl(i) \o <<")", ".">>)]
                                \o <<JNull>>)
          @@ "sections" :> JList(<<JStr(<<"W10">>)>>
                                 \o [i \in DOMAIN p.sections |->
                                        JDict(JStr(p.sections[i].t), JStr(p.sections[i].b))]))

\* ask_llm reaches its last line: the renderer gave nothing, the cleaned object is
\* rendered by _fallback_render
FallbackRender ==
    /\ last.op = "call"
    /\ last' = [last EXCEPT !.op = "done",
                            !.out = _fallback_render(CleanedObj(RenderObj(last.p), last.mode),
                                                     last.mode)]
    /\ UNCHANGED <<now, events, ticks, boosts, user_busy, boost_until, messages, cache,
                   written, req, llm>>

InitRender ==
    /\ now = 0
    /\ events = 0
    /\ ticks = 0
    /\ boosts = 0
    /\ user_busy = [u \in Users |-> FALSE]
    /\ boost_until = <<>>
    /\ messages = <<>>
    /\ cache = <<>>
    /\ written = <<>>
    /\ req = [i \in Slots |-> NewReq]
    /\ llm = Idle
    /\ \E a \in RenderAnswers, nc \in ClarifyCounts, ns \in SourceCounts,
          ss \in RenderSections, mode \in LLMModes :
          last = [op |-> "call", mode |-> mode,
                  p |-> [answer |-> a, nclarify |-> nc, nsources |-> ns, sections |-> ss],
                  out |-> <<>>]

SpecRender == InitRender /\ [][FallbackRender]_vars

----------------------------------------------------------------------------
(* Claims checked under SpecRender *)

\* the positions of the output where a blank line starts
BlankLines(out) == {i \in 1..(Len(out) - 1) : out[i] = "\n" /\ out[i + 1] = "\n"}

\* the blocks of the output: the texts between its blank lines, in order
Blocks(out) ==
    IF out = <<>> THEN <<>>
    ELSE LET seps == BlankLines(out)
             sep(k) == IF k = 0 THEN -1
                       ELSE IF k > Cardinality(seps) THEN Len(out) + 1
                       ELSE CHOOSE i \in seps : Cardinality({j \in seps : j < i}) = k - 1
         IN  [k \in 1..(Cardinality(seps) + 1) |-> SubSeq(out, sep(k - 1) + 2, sep(k) - 1)]

RECURSIVE SurvivingParts(_)
\* title then body of every section that has one of them, in input order
SurvivingParts(ss) ==
    IF ss = <<>> THEN <<>>
    ELSE (IF Head(ss).title # <<>> THEN <<Head(ss).title>> ELSE <<>>)
         \o (IF Head(ss).body # <<>> THEN <<Head(ss).body>> ELSE <<>>)
         \o SurvivingParts(Tail(ss))

\* the source list: the heading and the first 10 URLs at most, nothing without URLs
SourceBlock(heading, n) ==
    IF n = 0 THEN <<>>
    ELSE <<heading>> \o [i \in 1..(IF n < 10 THEN n ELSE 10) |-> SourceUrl(i)]

\* the clarify block: the heading and the first 2 items at most, nothing without items
ClarifyBlock(n) ==
    IF n = 0 THEN <<>>
    ELSE <<<<"Utochnyu", ":">>>>
         \o [i \in 1..(IF n < 2 THEN n ELSE 2) |-> <<"*", " ">> \o ClarifyItem(i)]

\* C26: in chat mode the fallback output is the answer, then the clarify heading
\* with at most 2 items, then the source heading with at most 10 URLs; in country
\* mode it is title then body of each surviving section in input order, then the
\* source heading with at most 10 URLs; the blocks are separated by one blank line,
\* no block is empty, and a heading is there only when its list has an entry
C26_FallbackContent ==
    last.op = "done" =>
        /\ Blocks(last.out) =
              IF last.mode = "country"
              THEN SurvivingParts(last.p.sections)
                   \o SourceBlock(<<"Istochniki", ":">>, last.p.nsources)
              ELSE (IF last.p.answer.text # <<>> THEN <<last.p.answer.text>> ELSE <<>>)
                   \o ClarifyBlock(last.p.nclarify)
                   \o SourceBlock(<<"Oficialn", "ye istochniki", ":">>, last.p.nsources)
        /\ \A k \in DOMAIN Blocks(last.out) : strip(Blocks(last.out)[k]) # <<>>

\* a chat object with an answer, 3 clarify items and 11 sources was rendered:
\* 1 + (1 + 2) + (1 + 10) blocks
C26_Witness ==
    /\ last.op = "done" /\ last.mode = "chat"
    /\ last.p.answer.text # <<>> /\ last.p.nclarify = 3 /\ last.p.nsources = 11
    /\ Len(Blocks(last.out)) = 15

----------------------------------------------------------------------------
(* The reply-level specification: both handlers, with a pipeline whose retrieval
   object is empty and whose renderer gives nothing *)

\* a retrieval object with an empty answer, no sections and no sources
BLANK_OBJ ==
    MkObj("answer" :> JStr(<<>>) @@ "sources" :> JList(<<>>) @@ "sections" :> JList(<<>>))
P_BLANK_OBJ == P("choices", Resp(<<"{", "W40", "}">>, Some(BLANK_OBJ)), <<>>)

\* what the services do: an answer of eight sections, and the blank object with a
\* renderer that gives no text
ReplyOutcomes == {[g |-> G_IN_SCOPE, p |-> P_COUNTRY, rr |-> R_BRIEF],
                  [g |-> G_IN_SCOPE, p |-> P_BLANK_OBJ, rr |-> R_EMPTY]}

NextReply ==
    \/ \E i \in Slots, u \in Users, q \in CountryQueries : Start(i, u, "country", q)
    \/ \E i \in Slots, u \in Users : Start(i, u, "chat", CHAT_TEXT)
    \/ \E i \in Slots, ok \in BOOLEAN : Limits(i, ok)
    \/ \E i \in Slots, ok \in BOOLEAN : Count(i, ok)
    \/ \E i \in Slots, ok \in BOOLEAN : Save(i, ok)
    \/ \E i \in Slots, ok \in BOOLEAN : CacheGet(i, ok)
    \/ \E i \in Slots, ok \in BOOLEAN : SendCached(i, ok)
    \/ \E i \in Slots, ok \in BOOLEAN : CacheDel(i, ok)
    \/ \E i \in Slots, ok \in BOOLEAN : Ensure(i, ok)
    \/ \E i \in Slots, ok \in BOOLEAN : SaveMsg(i, ok)
    \/ \E i \in Slots, ok \in BOOLEAN : Prep(i, ok)
    \/ \E i \in Slots, sv \in ReplyOutcomes : LLMReturn(i, sv)
    \/ \E i \in Slots, ok \in BOOLEAN : CacheSave(i, ok)
    \/ \E i \in Slots, ok \in BOOLEAN : SaveAsst(i, ok)
    \/ \E i \in Slots, ok \in BOOLEAN : Send(i, ok)

SpecReply == Init /\ [][NextReply]_vars

----------------------------------------------------------------------------
(* Claims checked under SpecReply *)

\* request i ends in this step at the send of a pipeline result that is the empty
\* string, and no call of the step raised
SendsEmptyResult(i) ==
    /\ req[i].pc = "send" /\ req[i].answer = <<>>
    /\ req'[i].pc = "done" /\ req'[i].reply # "failed"

\* C27: when the pipeline result is the empty string, the handler still sends the
\* user a message for the request
C27_EmptyResultReplied ==
    [][\A i \in Slots : SendsEmptyResult(i) => req'[i].reply # "nothing"]_vars

\* what the code does with an empty result: send_long sends nothing; the country
\* handler then sends its prompt for another country, the chat handler sends nothing
C27_EmptyResultAsCoded ==
    [][\A i \in Slots : SendsEmptyResult(i) =>
            req'[i].reply = IF req[i].handler = "country" THEN "again" ELSE "nothing"]_vars

\* a chat request whose pipeline returned the empty string has ended without a message
C27_Witness ==
    \E i \in Slots : req[i].pc = "done" /\ req[i].handler = "chat" /\ req[i].reply = "nothing"

----------------------------------------------------------------------------
(* The message-level specification: save_message and get_daily_user_message_count
   on the messages table, with the clock *)

MsgRoles == {"user", "assistant"}
\* the modes of the rows, which are the modes that are counted
MsgModes == {"chat", "country"}
CountedModes == MsgModes

\* the number of rows of the table
TotalRows(m) == BagCount(m, DOMAIN m)

\* await save_message(tg_user_id, role, text, mode=mode)
MsgSave(u, role, mode) ==
    /\ TotalRows(messages) < MaxMsgs
    /\ messages' = save_message(messages, u, role, mode, now)
    /\ last' = Idle
    /\ UNCHANGED <<now, events, ticks, boosts, user_busy, boost_until, cache, written, req,
                   llm>>

\* time passes: one unit, or one day
MsgTick(d) ==
    /\ ticks < MaxTicks
    /\ ticks' = ticks + 1
    /\ now' = now + d
    /\ last' = Idle
    /\ UNCHANGED <<events, boosts, user_busy, boost_until, messages, cache, written, req,
                   llm>>

\* await get_daily_user_message_count(tg_user_id, mode); last is the latest call when
\* it was a count
MsgCount(u, mode) ==
    /\ last' = [op |-> "count", user |-> u, mode |-> mode,
                n |-> get_daily_user_message_count(messages, u, mode, now)]
    /\ UNCHANGED <<now, events, ticks, boosts, user_busy, boost_until, messages, cache,
                   written, req, llm>>

NextMsg ==
    \/ \E u \in Users, role \in MsgRoles, mode \in MsgModes : MsgSave(u, role, mode)
    \/ \E d \in {1, Days(1)} : MsgTick(d)
    \/ \E u \in Users, mode \in CountedModes : MsgCount(u, mode)

SpecMsg == InitDB /\ [][NextMsg]_vars

----------------------------------------------------------------------------
(* Claims checked under SpecMsg *)

\* the rows a save at the present time can add
NewRows == [user : Users, role : MsgRoles, mode : MsgModes, created_at : {now}]

\* what one step does to the daily count of user u and mode: a clock step into
\* another UTC day empties it, a clock step within the day keeps it, the save of a
\* row raises it by one when the row is of u, of role user and of the mode, and keeps
\* it otherwise
DailyCountStep(u, mode) ==
    LET before == get_daily_user_message_count(messages, u, mode, now)
        after == get_daily_user_message_count(messages', u, mode, now')
    IN  IF Date(now') # Date(now) THEN after = 0
        ELSE IF messages' = messages THEN after = before
        ELSE \E row \in NewRows :
                /\ messages' = BagAdd(messages, row)
                /\ after = before + (IF row.user = u /\ row.role = "user" /\ row.mode = mode
                                     THEN 1 ELSE 0)

\* C28: the chat count and the country count of a user are independent and start
\* again at the UTC day boundary: a saved message changes only the count of its own
\* user and mode, and only when its role is user; rows of an earlier UTC day are not
\* counted; a count that is read is the number of the rows of that user, role
\* user, that mode and the present UTC day
C28_DailyCounters ==
    [][/\ \A u \in Users, mode \in CountedModes : DailyCountStep(u, mode)
       /\ last'.op = "count" =>
             last'.n = BagCount(messages',
                                {x \in DOMAIN messages' :
                                    /\ x.user = last'.user /\ x.role = "user"
                                    /\ x.mode = last'.mode
                                    /\ x.created_at \div UnitsPerDay = now' \div UnitsPerDay})]_vars

\* ann has a chat message of an earlier day and a country message of today, bob a
\* chat message of today; ann's chat count was read as 0 and her country count is 1
C28_Witness ==
    /\ \E x \in DOMAIN messages :
          x.user = "ann" /\ x.role = "user" /\ x.mode = "chat" /\ Date(x.created_at) < Date(now)
    /\ \E x \in DOMAIN messages :
          x.user = "ann" /\ x.role = "user" /\ x.mode = "country" /\ Date(x.created_at) = Date(now)
    /\ \E x \in DOMAIN messages :
          x.user = "bob" /\ x.role = "user" /\ x.mode = "chat" /\ Date(x.created_at) = Date(now)
    /\ last.op = "count" /\ last.user = "ann" /\ last.mode = "chat" /\ last.n = 0
    /\ get_daily_user_message_count(messages, "ann", "country", now) = 1

----------------------------------------------------------------------------
(* The send-level specification: send_long applied to short texts over markup
   delimiters, tags, entities and placeholder bytes, and to texts longer than one
   message *)

\* the tokens of the short texts
SendToks == {"<", ">", "&", "/", "b", "<b>", "</b>", "NUL", "0", "1", "W10", "&lt;"}

\* the short texts: up to MaxSendLen tokens
ShortTexts == UNION {[1..n -> SendToks] : n \in 0..MaxSendLen}

\* the ends of the long texts: a bold word, a link, an ampersand, a line
LongTails == {<<"<b>", "W10", "</b>">>, <<"<a href=u>", "W10", "</a>">>,
              <<"&", "W10">>, <<"\n", "W100">>}

\* the long texts: text that fills a message but for a few characters, with a line
\* break in it or without, then one of the ends
LongTexts ==
    {Fill(n) \o tail : n \in (SEND_LIMIT - 4)..SEND_LIMIT, tail \in LongTails}
    \cup {Fill(3000) \o <<"\n">> \o Fill(n) \o tail : n \in 895..899, tail \in LongTails}

\* await send_long(message, text)
SendLong ==
    /\ last.op = "call"
    /\ last' = [last EXCEPT !.op = "done",
                            !.clean = sanitize_telegram_html(strip(last.text)),
                            !.sent = send_long(last.text)]
    /\ UNCHANGED <<now, events, ticks, boosts, user_busy, boost_until, messages, cache,
                   written, req, llm>>

InitSend ==
    /\ now = 0
    /\ events = 0
    /\ ticks = 0
    /\ boosts = 0
    /\ user_busy = [u \in Users |-> FALSE]
    /\ boost_until = <<>>
    /\ messages = <<>>
    /\ cache = <<>>
    /\ written = <<>>
    /\ req = [i \in Slots |-> NewReq]
    /\ llm = Idle
    /\ \E text \in ShortTexts \cup LongTexts :
          last = [op |-> "call", text |-> text, clean |-> <<>>, sent |-> <<>>]

SpecSend == InitSend /\ [][SendLong]_vars

----------------------------------------------------------------------------
(* Claims checked under SpecSend *)

\* the token at j is part of an allow-listed tag of the text
InAllowedTag(text, j) ==
    \E a \in 1..j : AllowedTagEnd(text, a) # 0 /\ j < AllowedTagEnd(text, a)

\* every "<" and ">" of the text is part of an allow-listed tag, and the text has no
\* "&" that is not the start of an entity
MarkupSafe(text) ==
    \A j \in DOMAIN text :
        /\ text[j] \in {"<", ">"} \cup TagToks => InAllowedTag(text, j)
        /\ text[j] # "&"

\* C29: every message that send_long sends has every "<" and ">" in an allow-listed
\* tag and no unescaped "&", for every text, the texts that hold the placeholder
\* bytes of the sanitizer included
C29_SentTextSafe ==
    last.op = "done" => \A k \in DOMAIN last.sent : MarkupSafe(last.sent[k].text)

\* the part of C29 that holds: the text that sanitize_telegram_html returns, before
\* send_long cuts it into messages, has every "<" and ">" in an allow-listed tag and
\* no unescaped "&"; and send_long sends no message exactly when SendsNothing
C29_SanitizedTextSafe ==
    last.op = "done" =>
        /\ MarkupSafe(last.clean)
        /\ (last.sent = <<>>) = SendsNothing(last.text)

\* a text with placeholder bytes and a tag was sanitized and sent as one message
C29_Witness ==
    /\ last.op = "done"
    /\ Contains(last.text, "NUL") /\ Contains(last.text, "<b>") /\ Contains(last.text, "<")
    /\ Len(last.sent) = 1

----------------------------------------------------------------------------
(* Claims checked under SpecReply: the guard and the users *)

\* request i takes a step
Steps(i) == req'[i] # req[i]

\* request i is rejected as busy in this step
RejectedBusy(i) == Steps(i) /\ req'[i].pc = "done" /\ req'[i].reply = "busy"

\* C30: a step of a request changes user_busy of no user but its own, a request is
\* rejected as busy only when user_busy of its own user is set, which takes another
\* request of that user in its guarded block, and so a request of one user in flight
\* never has a request of another user rejected
C30_GuardPerUser ==
    [][\A i \in Slots :
          /\ Steps(i) => \A u \in Users \ {req'[i].user} : user_busy'[u] = user_busy[u]
          /\ RejectedBusy(i) =>
                /\ user_busy[req'[i].user]
                /\ \E j \in Slots \ {i} : req[j].user = req'[i].user /\ InBlock(req[j])]_vars

\* requests of ann and of bob are in their guarded blocks at the same time, each with
\* the flag of its user set
C30_Witness ==
    \E i, j \in Slots :
        /\ req[i].user = "ann" /\ InBlock(req[i]) /\ user_busy["ann"]
        /\ req[j].user = "bob" /\ InBlock(req[j]) /\ user_busy["bob"]

----------------------------------------------------------------------------
(* logic/ai.py: _build_history_context *)

\* the line of one message: None for a message without text, else prefix: text with
\* the text squeezed and cut to HISTORY_ITEM_MAX_CHARS
HistoryLine(m) ==
    LET text == strip(m.text)
        squeezed == strip(SquashNewlines(SquashBlanks(text, 1), 1))
        cut == IF StrLen(squeezed) > HISTORY_ITEM_MAX_CHARS
               THEN rstrip(Before(squeezed, HISTORY_ITEM_MAX_CHARS))
               ELSE squeezed
        prefix == IF m.role = "user" THEN "Polzovatel" ELSE "Assistent"
    IN  IF text = <<>> THEN None ELSE Some(<<prefix, ":", " ">> \o cut)

RECURSIVE HistoryLines_continue(_, _)
\* the loop that passes over a line that does not fit and goes on
HistoryLines_continue(history, total) ==
    IF history = <<>> THEN <<>>
    ELSE LET line == HistoryLine(Head(history))
         IN  IF line = None THEN HistoryLines_continue(Tail(history), total)
             ELSE IF total + StrLen(The(line)) + 1 > HISTORY_TOTAL_MAX_CHARS
             THEN HistoryLines_continue(Tail(history), total)
             ELSE <<The(line)>>
                  \o HistoryLines_continue(Tail(history), total + StrLen(The(line)) + 1)

RECURSIVE HistoryLines(_, _)
\* the loop of _build_history_context from a message on, with the total so far: the
\* lines it appends
HistoryLines(history, total) ==
    IF history = <<>> THEN <<>>
    ELSE LET line == HistoryLine(Head(history))
         IN  IF line = None THEN HistoryLines(Tail(history), total)
             ELSE IF total + StrLen(The(line)) + 1 > HISTORY_TOTAL_MAX_CHARS THEN <<>>
             ELSE <<The(line)>>
                  \o HistoryLines(Tail(history), total + StrLen(The(line)) + 1)

RECURSIVE JoinLines(_)
\* "\n".join(lines)
JoinLines(lines) ==
    IF lines = <<>> THEN <<>>
    ELSE IF Len(lines) = 1 THEN Head(lines)
    ELSE Head(lines) \o <<"\n">> \o JoinLines(Tail(lines))

_build_history_context(history) ==
    LET lines == HistoryLines(history, 0)
    IN  IF history = <<>> \/ lines = <<>> THEN <<>>
        ELSE <<"Kratkaya istoriya", "\n">> \o JoinLines(lines)

----------------------------------------------------------------------------
(* The history-level specification: _build_history_context applied to the lists of
   messages that get_recent_messages can return *)

\* the messages: role, the text as stored, and the text as it is to be emitted
\* (squeezed, and cut to 800 characters without trailing whitespace)
HistoryItems ==
    {[role |-> "assistant", text |-> <<" ", "\n">>, out |-> <<>>],
     [role |-> "user", text |-> <<" ", "W100", " ", " ", "W10", "\n">>,
      out |-> <<"W100", " ", "W10">>],
     [role |-> "assistant", text |-> Fill(HISTORY_ITEM_MAX_CHARS),
      out |-> Fill(HISTORY_ITEM_MAX_CHARS)],
     [role |-> "assistant", text |-> Fill(HISTORY_ITEM_MAX_CHARS + 100),
      out |-> Fill(HISTORY_ITEM_MAX_CHARS)],
     [role |-> "user", text |-> Fill(HISTORY_ITEM_MAX_CHARS - 1) \o <<" ", "W40">>,
      out |-> Fill(HISTORY_ITEM_MAX_CHARS - 1)]}

\* the lists of up to MaxHist messages, oldest first
Histories == UNION {[1..n -> HistoryItems] : n \in 0..MaxHist}

\* ask_llm builds the history context of the prompt
BuildHistory ==
    /\ last.op = "call"
    /\ last' = [last EXCEPT !.op = "done",
                            !.lines = HistoryLines(last.history, 0),
                            !.context = _build_history_context(last.history)]
    /\ UNCHANGED <<now, events, ticks, boosts, user_busy, boost_until, messages, cache,
                   written, req, llm>>

InitHistory ==
    /\ now = 0
    /\ events = 0
    /\ ticks = 0
    /\ boosts = 0
    /\ user_busy = [u \in Users |-> FALSE]
    /\ boost_until = <<>>
    /\ messages = <<>>
    /\ cache = <<>>
    /\ written = <<>>
    /\ req = [i \in Slots |-> NewReq]
    /\ llm = Idle
    /\ \E h \in Histories :
          last = [op |-> "call", history |-> h, lines |-> <<>>, context |-> <<>>]

SpecHistory == InitHistory /\ [][BuildHistory]_vars

----------------------------------------------------------------------------
(* Claims checked under SpecHistory *)

\* the messages of the list that have text, in input order
WithText == SelectSeq(last.history, LAMBDA m : m.out # <<>>)

\* the line that is to be emitted for a message
ExpectedLine(m) ==
    <<IF m.role = "user" THEN "Polzovatel" ELSE "Assistent", ":", " ">> \o m.out

RECURSIVE Budget(_)
\* the sum over the lines of (length of the line + 1)
Budget(lines) ==
    IF lines = <<>> THEN 0 ELSE StrLen(Head(lines)) + 1 + Budget(Tail(lines))

\* C31: the emitted lines are the lines of the first k messages with text, in input
\* order, each text cut to at most HISTORY_ITEM_MAX_CHARS characters; the sum of
\* (line length + 1) is at most HISTORY_TOTAL_MAX_CHARS; and k is less than the
\* number of messages with text only when the next line would exceed the total
C31_HistoryBudget ==
    last.op = "done" =>
        LET k == Len(last.lines)
        IN  /\ k <= Len(WithText)
            /\ \A i \in 1..k :
                  /\ last.lines[i] = ExpectedLine(WithText[i])
                  /\ StrLen(SubSeq(last.lines[i], 4, Len(last.lines[i])))
                        <= HISTORY_ITEM_MAX_CHARS
            /\ Budget(last.lines) <= HISTORY_TOTAL_MAX_CHARS
            /\ k < Len(WithText) =>
                  Budget(last.lines) + StrLen(ExpectedLine(WithText[k + 1])) + 1
                     > HISTORY_TOTAL_MAX_CHARS
            /\ last.context = IF k = 0 THEN <<>>
                              ELSE <<"Kratkaya istoriya", "\n">> \o JoinLines(last.lines)

\* three long messages were emitted, one of them cut, the fourth did not fit, and the
\* short message after it was not emitted
C31_Witness ==
    /\ last.op = "done"
    /\ Len(last.lines) = 3 /\ Len(WithText) = 5
    /\ StrLen(last.history[1].text) > HISTORY_ITEM_MAX_CHARS
    /\ StrLen(WithText[5].text) < 200

----------------------------------------------------------------------------
(* Claims checked under SpecCountry: the quota under concurrent requests *)

\* the user has no boost and never had one, so that the limit of a mode is fixed
NeverBoosted(u) == u \notin DOMAIN boost_until \/ boost_until[u] = None

\* the limit of a mode without a boost
BaseLimit(mode) == IF mode = "chat" THEN CHAT_DAILY_LIMIT ELSE COUNTRY_DAILY_LIMIT

\* C32: for a user who is no admin and whose limit stays fixed, the number of stored
\* user messages of a mode dated today never exceeds the limit, under every
\* interleaving of the requests of that user, while no call has raised and the
\* clock has not moved
C32_QuotaNotOvershot ==
    \A u \in Users \ ADMIN_IDS, mode \in {"chat", "country"} :
        (events = 0 /\ NeverBoosted(u)) =>
            get_daily_user_message_count(messages, u, mode, now) <= BaseLimit(mode)

----------------------------------------------------------------------------
(* Claims checked under SpecReply: the flag and the guarded blocks *)

\* C33: in every reachable state user_busy[user] is true exactly when a guarded
\* block of that user, of the chat or of the country handler, is executing; in
\* particular the flag is not false while a request of the user is inside its block
C33_FlagIffBlock ==
    \A u \in Users :
        user_busy[u] <=> \E i \in Slots : req[i].user = u /\ InBlock(req[i])

----------------------------------------------------------------------------
(* Claims checked under Spec: the daily counts and the requests *)

\* the save of the user message of request i returns in this step without raising
UserSaveOk(i) ==
    /\ req[i].pc \in {"save", "savemsg"}
    /\ req'[i].pc \notin {"save", "savemsg"}
    /\ events' = events

\* C34: for a user who is no admin, while the clock stands, a step raises the daily
\* count of a mode by one exactly when it is the successful save of the user
\* message of an admitted request of that mode, and every other step (a rejection
\* as busy, over quota or empty, a cache hit, a pipeline run that succeeds or
\* fails, the save of the answer) leaves both daily counts unchanged
C34_CountPerAdmittedRequest ==
    [][\A u \in Users \ ADMIN_IDS :
        (now' = now) =>
            \A mode \in {"chat", "country"} :
                get_daily_user_message_count(messages', u, mode, now')
                  = get_daily_user_message_count(messages, u, mode, now)
                    + Cardinality({i \in Slots : /\ req[i].user = u
                                                 /\ ModeOf(req[i]) = mode
                                                 /\ UserSaveOk(i)})]_vars

\* two country requests of a user who is no admin were both admitted and both
\* saved their message; one ran the pipeline and the other was served from the cache
C34_Witness ==
    /\ events = 0 /\ now = 0
    /\ \E i, j \in Slots :
        /\ req[i].user = "ann" /\ req[j].user = "ann"
        /\ req[i].pc = "done" /\ req[i].reply = "answer" /\ req[i].handler = "country"
        /\ req[j].pc = "done" /\ req[j].reply = "cached"
    /\ get_daily_user_message_count(messages, "ann", "country", now) = COUNTRY_DAILY_LIMIT + 1

----------------------------------------------------------------------------
(* Claims checked under SpecReply: the admins *)

\* a request of the user was admitted past the busy check and has not finished
Unfinished(u) == {i \in Slots : req[i].user = u /\ req[i].pc \notin {"new", "done"}}

\* request j is invoked in this step
Invoked(j) == req[j].pc = "new" /\ req'[j].pc # "new"

\* the exemption of the admins: a request of an admin is never answered with the
\* quota message, and no step changes the chat or the country count of an admin
\* while the clock stands
C35_AdminExempt ==
    /\ [](\A i \in Slots : is_admin(req[i].user) => req[i].reply # "quota")
    /\ [][\A u \in ADMIN_IDS : (now' = now) =>
            \A mode \in {"chat", "country"} :
                get_daily_user_message_count(messages', u, mode, now')
                  = get_daily_user_message_count(messages, u, mode, now)]_vars

\* C35: admins are exempt from the quotas (never the quota reply, no step changes
\* their chat or country count) but not from the guard: a request of an admin that
\* is invoked with a text while an earlier request of the same admin has not
\* finished is rejected as busy
C35_AdminGuarded ==
    /\ C35_AdminExempt
    /\ [][\A j \in Slots : \A u \in ADMIN_IDS :
            (Invoked(j) /\ req'[j].user = u /\ Unfinished(u) # {}
                /\ req'[j].reply # "prompt")
                => (req'[j].pc = "done" /\ req'[j].reply = "busy")]_vars

\* an admin with rows of mode admin whose request was rejected as busy
C35_Witness ==
    \E i, j \in Slots :
        /\ i # j /\ is_admin(req[i].user) /\ req[j].user = req[i].user
        /\ InBlock(req[i])
        /\ req[j].pc = "done" /\ req[j].reply = "busy"
        /\ \E x \in DOMAIN messages : x.user = req[i].user /\ x.mode = "admin"

----------------------------------------------------------------------------
(* Claims checked under SpecCache: the read and the sweep *)

\* the sweep of init_db and save_cached_country_info run at time t would keep the
\* entry of the key
SurvivesSweep(c, country_key, t) == _normalize_country_key(country_key) \in DOMAIN Sweep(c, t)

\* C36: at every instant get_cached_country_info returns the entry of a key exactly
\* when the sweep run at the same instant would not delete it, an entry whose age
\* equals the TTL included; and a step of init_db or of save_cached_country_info
\* deletes no entry of another key that a read at the same instant returns
C36_ReadAgreesWithSweep ==
    /\ [](\A key \in CacheKeys :
            (get_cached_country_info(cache, key, now) # None)
                <=> (_normalize_country_key(key) \in DOMAIN cache
                        /\ SurvivesSweep(cache, key, now)))
    /\ [][(last'.op \in {"init_db", "put"} /\ last'.at = now /\ cache' # cache) =>
            \A key \in CacheKeys :
                (get_cached_country_info(cache, key, now) # None
                    /\ (last'.op = "put" =>
                           _normalize_country_key(key) # _normalize_country_key(last'.key)))
                => get_cached_country_info(cache', key, now')
                     = get_cached_country_info(cache, key, now)]_vars

\* a read returned an entry whose age equals the TTL exactly, next to an older entry
\* that the sweep would delete
C36_Witness ==
    /\ last.op = "get" /\ last.at = now /\ last.result # None
    /\ cache[_normalize_country_key(last.key)].created_at = now - TTL
    /\ \E k \in DOMAIN cache : cache[k].created_at < now - TTL

----------------------------------------------------------------------------
(* Claims checked under SpecNorm: the normalizers applied twice *)

\* _normalize_sections and _normalize_list_str applied to their own result return it
C37_SectionsAndListsIdempotent ==
    Normalized =>
        /\ _normalize_sections(ListOfSections(last.sections)) = last.sections
        /\ _normalize_list_str(ListOfStr(_normalize_list_str(last.v)))
             = _normalize_list_str(last.v)

\* C37: normalization is idempotent: each of _normalize_sources, _normalize_sections
\* and _normalize_list_str applied to its own result returns that result, so the
\* sources and sections that _fallback_render normalizes again are those of the
\* normalized object
C37_NormalizeIdempotent ==
    /\ C37_SectionsAndListsIdempotent
    /\ Normalized => _normalize_sources(ListOfStr(last.sources)) = last.sources

----------------------------------------------------------------------------
(* bot.py: the profile wizard.  profile_state is the dict of line 52; the profile
   is the six columns of the user's row that update_user_profile writes *)

\* the states in the order handle_profile_answer assigns them
ProfileStates == <<"home_country", "target_country", "migration_goal", "budget",
                   "profession", "notes">>

BTN_SKIP_QUESTION == <<"Propustit etot vopros">>

\* profile_state[user_id] = ..., or profile_state.pop(user_id, None) for NoState
NoState == "none"
SetState(ps, user_id, state) ==
    IF state = NoState THEN [u \in DOMAIN ps \ {user_id} |-> ps[u]]
    ELSE [u \in DOMAIN ps \cup {user_id} |-> IF u = user_id THEN state ELSE ps[u]]

\* profile_state.get(user_id)
GetState(ps, user_id) == IF user_id \in DOMAIN ps THEN ps[user_id] ELSE NoState

\* the state that the branch of handle_profile_answer for a state assigns
StateAfter(state) ==
    LET k == CHOOSE j \in DOMAIN ProfileStates : ProfileStates[j] = state
    IN  IF k = Len(ProfileStates) THEN NoState ELSE ProfileStates[k + 1]

\* set_field: value = None if text == BTN_SKIP_QUESTION else text
FieldValue(text) == IF text = BTN_SKIP_QUESTION THEN None ELSE Some(text)

\* update_user_profile(user_id, **{field_name: value})
update_user_profile(profiles, user_id, field_name, value) ==
    [profiles EXCEPT ![user_id] = [@ EXCEPT ![field_name] = value]]

\* a handler task of echo_message that is not running
NoTask == [pc |-> "idle", user |-> "ann", text |-> <<>>, state |-> NoState]

\* the texts of the messages: an answer, and the text of the skip button
ProfileTexts == {<<" ", "W10">>, BTN_SKIP_QUESTION}

\* handle_menu_buttons, BTN_PROFILE_FILL or BTN_PROFILE_FILL_AGAIN
ProfileFill(u) ==
    /\ last.sent < MaxProfileMsgs
    /\ last' = [last EXCEPT !.op = "fill", !.sent = @ + 1,
                            !.profile_state = SetState(@, u, ProfileStates[1])]
    /\ UNCHANGED <<now, events, ticks, boosts, user_busy, boost_until, messages, cache,
                   written, req, llm>>

\* cmd_start: profile_state.pop(user_id, None)
CmdStart(u) ==
    /\ last.sent < MaxProfileMsgs
    /\ last' = [last EXCEPT !.op = "start", !.sent = @ + 1,
                            !.profile_state = SetState(@, u, NoState)]
    /\ UNCHANGED <<now, events, ticks, boosts, user_busy, boost_until, messages, cache,
                   written, req, llm>>

\* echo_message up to its first await: a message that finds a state goes to
\* handle_profile_answer and returns after it; any other goes on to the stage
\* dispatch (the country handler, the chat pipeline or the menu hint)
EchoMessage(i, u, text) ==
    /\ last.sent < MaxProfileMsgs
    /\ last.task[i].pc = "idle"
    /\ LET state == GetState(last.profile_state, u)
       IN  last' = [last EXCEPT
                      !.op = "message", !.sent = @ + 1,
                      !.task[i] = IF state # NoState
                                  THEN [pc |-> "set_field", user |-> u,
                                        text |-> strip(text), state |-> state]
                                  ELSE @,
                      !.dispatched = IF state # NoState THEN @ ELSE @ + 1]
    /\ UNCHANGED <<now, events, ticks, boosts, user_busy, boost_until, messages, cache,
                   written, req, llm>>

\* handle_profile_answer(message, state): await set_field(state), then the state of
\* the branch is assigned; an exception of the update ends the handler before that
HandleProfileAnswer(i, ok) ==
    /\ last.task[i].pc = "set_field"
    /\ Fault(ok)
    /\ LET t == last.task[i]
       IN  last' = [last EXCEPT
                      !.op = "answer",
                      !.task[i] = NoTask,
                      !.profiles = IF ok THEN update_user_profile(@, t.user, t.state,
                                                                  FieldValue(t.text))
                                   ELSE @,
                      !.profile_state = IF ok THEN SetState(@, t.user, StateAfter(t.state))
                                        ELSE @]
    /\ UNCHANGED <<now, ticks, boosts, user_busy, boost_until, messages, cache, written,
                   req, llm>>

\* a stored profile: every field holds the value of an earlier filling
OldProfile == [f \in {ProfileStates[k] : k \in DOMAIN ProfileStates} |-> Some(<<"old">>)]

InitProfile ==
    /\ now = 0
    /\ events = 0
    /\ ticks = 0
    /\ boosts = 0
    /\ user_busy = [u \in Users |-> FALSE]
    /\ boost_until = <<>>
    /\ messages = <<>>
    /\ cache = <<>>
    /\ written = <<>>
    /\ req = [i \in Slots |-> NewReq]
    /\ llm = Idle
    /\ last = [op |-> "none", sent |-> 0, dispatched |-> 0, profile_state |-> <<>>,
               profiles |-> [u \in Users |-> OldProfile],
               task |-> [i \in Slots |-> NoTask]]

NextProfile ==
    \/ \E u \in Users : ProfileFill(u)
    \/ \E u \in Users : CmdStart(u)
    \/ \E i \in Slots, u \in Users, text \in ProfileTexts : EchoMessage(i, u, text)
    \/ \E i \in Slots, ok \in BOOLEAN : HandleProfileAnswer(i, ok)

SpecProfile == InitProfile /\ [][NextProfile]_vars

----------------------------------------------------------------------------
(* Claims checked under SpecProfile *)

\* the handler of a message of the wizard ends in this step, its update not raising
Answered(i) == last.task[i].pc = "set_field" /\ last'.task[i].pc = "idle" /\ events' = events

\* the wizard while the messages of a user are handled one after the other: the
\* message is stored in the field of the state and the state advances by one step
C38_WizardOneAtATime ==
    [][\A i \in Slots :
        LET t == last.task[i]
        IN  (Answered(i) /\ \A j \in Slots \ {i} : last.task[j].pc = "idle"
                /\ GetState(last.profile_state, t.user) = t.state)
            => /\ last'.profiles = update_user_profile(last.profiles, t.user, t.state,
                                                       FieldValue(t.text))
               /\ last'.profile_state
                    = SetState(last.profile_state, t.user, StateAfter(t.state))]_vars

\* C38: while the state of a user is set it advances through home_country,
\* target_country, migration_goal, budget, profession, notes, one step for each
\* free-text message whose handler ends without raising, the message being stored
\* in the field of the current state (null for the text of the skip button), and is
\* cleared after the sixth; and a message that arrives while the state is set is
\* not dispatched to the chat or country handlers and saves no row
C38_WizardSteps ==
    /\ [][\A i \in Slots :
            LET t == last.task[i]
                cur == GetState(last.profile_state, t.user)
            IN  (Answered(i) /\ cur # NoState) =>
                  /\ last'.profiles = update_user_profile(last.profiles, t.user, cur,
                                                          FieldValue(t.text))
                  /\ last'.profile_state
                       = SetState(last.profile_state, t.user, StateAfter(cur))]_vars
    /\ [][\A u \in Users :
            (last'.op = "message" /\ GetState(last.profile_state, u) # NoState
                /\ \E i \in Slots : last'.task[i] # last.task[i] /\ last'.task[i].user = u)
            => (last'.dispatched = last.dispatched /\ messages' = messages)]_vars

\* the six answers of a user were handled one after the other, the third being the
\* text of the skip button, and the state of the user is cleared
C38_Witness ==
    /\ last.op = "answer" /\ last.sent = MaxProfileMsgs /\ events = 0
    /\ "ann" \notin DOMAIN last.profile_state
    /\ last.profiles["ann"] = [OldProfile EXCEPT !["home_country"] = Some(<<"W10">>),
                                                 !["target_country"] = Some(<<"W10">>),
                                                 !["migration_goal"] = None,
                                                 !["budget"] = Some(<<"W10">>),
                                                 !["profession"] = Some(<<"W10">>),
                                                 !["notes"] = Some(<<"W10">>)]

----------------------------------------------------------------------------
(* The payment-level specification: handle_successful_payment next to the clock,
   the admin's clearing of a boost and the reads of get_effective_limits *)

\* handle_successful_payment: donation says that the currency is XTR and the payload
\* starts with donation_stars; ensure_user and add_boost_days each inside its own
\* try/except, then the two answers; any other payment gets the generic answer
HandleSuccessfulPayment(u, donation, ok_ensure, ok_add) ==
    /\ boosts < MaxBoosts
    /\ boosts' = boosts + 1
    /\ IF donation THEN TRUE ELSE ok_ensure /\ ok_add
    /\ Fault(ok_ensure /\ ok_add)
    /\ LET b == IF ok_ensure THEN ensure_user(boost_until, u) ELSE boost_until
       IN  boost_until' = IF ~donation THEN boost_until
                          ELSE IF ok_add THEN add_boost_days(b, u, BOOST_DAYS, now)
                          ELSE b
    /\ last' = [op |-> "payment", user |-> u, at |-> now,
                before |-> get_user_boost_until(boost_until, u),
                reply |-> IF donation THEN "activated" ELSE "generic"]
    /\ UNCHANGED <<now, ticks, user_busy, messages, cache, written, req, llm>>

NextPayment ==
    \/ \E d \in DBTickSteps : DBTick(d)
    \/ \E u \in Payers : ClearBoost(u)
    \/ \E u \in Payers, ok \in BOOLEAN : GetLimits(u, ok)
    \/ \E u \in Payers, donation, ok_ensure, ok_add \in BOOLEAN :
          HandleSuccessfulPayment(u, donation, ok_ensure, ok_add)

SpecPayment == InitDB /\ [][NextPayment]_vars

----------------------------------------------------------------------------
(* Claims checked under SpecPayment *)

\* the handler sends the confirmation of the boosted limits in this step
Confirms == last'.op = "payment" /\ boosts' = boosts + 1 /\ last'.reply = "activated"

\* the stored boost_until of the payer after the step is later than the payment, and
\* BOOST_DAYS days later than a value before the payment that was in the future, so
\* that get_effective_limits returns the boosted limits
BoostGranted ==
    LET u == last'.user
        after == get_user_boost_until(boost_until', u)
    IN  /\ after # None
        /\ The(after) > now
        /\ (last'.before # None /\ The(last'.before) > now)
              => The(after) >= The(last'.before) + Days(BOOST_DAYS)
        /\ get_effective_limits(boost_until', u, TRUE, now').chat = CHAT_DAILY_LIMIT_BOOST
        /\ get_effective_limits(boost_until', u, TRUE, now').country
             = COUNTRY_DAILY_LIMIT_BOOST

\* the confirmation and the boost when neither ensure_user nor add_boost_days raises
C39_BoostWhenNoCallRaises ==
    [][(Confirms /\ events' = events) => BoostGranted]_vars

\* C39: whenever handle_successful_payment sends the confirmation that the boosted
\* limits were activated, the stored boost_until of the payer is later than the time
\* of the payment, and at least BOOST_DAYS days later than its value before the
\* payment when that was in the future, and the next get_effective_limits of the
\* payer returns the boosted limits
C39_ConfirmedBoostGranted ==
    [][Confirms => BoostGranted]_vars

\* a payer whose boost had not run out paid again and the boost was extended
C39_Witness ==
    /\ last.op = "payment" /\ last.reply = "activated" /\ last.at = now /\ events = 0
    /\ last.before # None /\ The(last.before) > now
    /\ get_user_boost_until(boost_until, last.user)
         = Some(The(last.before) + Days(BOOST_DAYS))

----------------------------------------------------------------------------
(* The loop-level specification: send_long one iteration of its loop at a time.
   last.t is the local t, last.first the local first, last.sent the messages
   answered so far, each with the flag that it carries reply_markup *)

\* the beginnings of the texts: nothing, a placeholder of no tag before a line break
\* (the sanitizer drops it, so that t starts with the line break), an opened tag
LoopHeads == {<<>>, <<"NUL", "1", "NUL", "\n">>, <<"<b>">>}

\* the bodies: short texts, texts of the limit and one more, texts without a line
\* break that take one cut and two, texts with line breaks and blanks at the cut
LoopBodies ==
    {<<"W10">>,
     Fill(SEND_LIMIT - 3),
     Fill(SEND_LIMIT + 1),
     Fill(2 * SEND_LIMIT) \o <<"2">>,
     Fill(2 * SEND_LIMIT + 5),
     Fill(SEND_LIMIT - 5) \o <<" ", " ">> \o Fill(10) \o <<"2">>,
     Fill(3000) \o <<"2", "\n">> \o Fill(3000) \o <<"3", "\n">> \o Fill(3000) \o <<"4">>,
     Fill(3000) \o <<"2", "\n", "\n", " ">> \o Fill(SEND_LIMIT + 100) \o <<"3", "\n", "4">>,
     Fill(SEND_LIMIT - 1) \o <<"\n">> \o Fill(SEND_LIMIT) \o <<"\n", "2">>}

\* the ends: nothing, blanks that the first strip takes off, a closing tag
LoopTails == {<<>>, <<"\n", " ">>, <<"</b>">>}

LoopTexts ==
    {h \o b \o e : h \in LoopHeads, b \in LoopBodies, e \in LoopTails}
    \cup {<<>>, <<" ", "\n">>}

\* the body of the loop applied to t: cut, part = t[:cut].strip() and the new
\* t = t[cut:].strip()
Iterate(t) ==
    LET found == RFindNewline(t, SEND_LIMIT)
        cut == IF found = -1 THEN SEND_LIMIT ELSE found
    IN  [part |-> strip(Before(t, cut)), rest |-> strip(After(t, cut))]

RECURSIVE Rests(_)
\* the values that the local t takes when the loop starts with t
Rests(t) == IF StrLen(t) > SEND_LIMIT THEN {t} \cup Rests(Iterate(t).rest) ELSE {t}

\* sanitize_telegram_html((text or "").strip()) of every text, and the body of the
\* loop on every value of t, each computed once
Sanitized == [text \in LoopTexts |-> sanitize_telegram_html(strip(text))]
Iterations ==
    [t \in UNION {Rests(Sanitized[text]) : text \in LoopTexts} |->
        [len |-> StrLen(t), step |-> Iterate(t)]]

\* t = sanitize_telegram_html((text or "").strip()); if not t: return
LoopEnter ==
    /\ last.op = "call"
    /\ LET t == Sanitized[last.text]
       IN  last' = [last EXCEPT !.op = IF t = <<>> THEN "done" ELSE "loop",
                                !.clean = t, !.t = t]
    /\ UNCHANGED <<now, events, ticks, boosts, user_busy, boost_until, messages, cache,
                   written, req, llm>>

\* one iteration with reply_markup on every message
LoopIteration_markup_all ==
    /\ last.op = "loop"
    /\ Iterations[last.t].len > SEND_LIMIT
    /\ LET part == Iterations[last.t].step.part
       IN  last' = [last EXCEPT
                      !.sent = IF part # <<>>
                               THEN Append(@, [text |-> part, markup |-> TRUE])
                               ELSE @,
                      !.first = IF part # <<>> THEN FALSE ELSE @,
                      !.t = Iterations[last.t].step.rest,
                      !.iterations = @ + 1]
    /\ UNCHANGED <<now, events, ticks, boosts, user_busy, boost_until, messages, cache,
                   written, req, llm>>

\* one iteration of while len(t) > limit
LoopIteration ==
    /\ last.op = "loop"
    /\ Iterations[last.t].len > SEND_LIMIT
    /\ LET part == Iterations[last.t].step.part
       IN  last' = [last EXCEPT
                      !.sent = IF part # <<>>
                               THEN Append(@, [text |-> part, markup |-> last.first])
                               ELSE @,
                      !.first = IF part # <<>> THEN FALSE ELSE @,
                      !.t = Iterations[last.t].step.rest,
                      !.iterations = @ + 1]
    /\ UNCHANGED <<now, events, ticks, boosts, user_busy, boost_until, messages, cache,
                   written, req, llm>>

\* the lines after the loop: the rest is answered when it is not empty
LoopExit ==
    /\ last.op = "loop"
    /\ Iterations[last.t].len <= SEND_LIMIT
    /\ last' = [last EXCEPT
                  !.op = "done",
                  !.sent = IF last.t # <<>>
                           THEN Append(@, [text |-> last.t, markup |-> last.first])
                           ELSE @,
                  !.t = <<>>]
    /\ UNCHANGED <<now, events, ticks, boosts, user_busy, boost_until, messages, cache,
                   written, req, llm>>

InitLoop ==
    /\ now = 0
    /\ events = 0
    /\ ticks = 0
    /\ boosts = 0
    /\ user_busy = [u \in Users |-> FALSE]
    /\ boost_until = <<>>
    /\ messages = <<>>
    /\ cache = <<>>
    /\ written = <<>>
    /\ req = [i \in Slots |-> NewReq]
    /\ llm = Idle
    /\ \E text \in LoopTexts :
          last = [op |-> "call", text |-> text, clean |-> <<>>, t |-> <<>>,
                  first |-> TRUE, sent |-> <<>>, iterations |-> 0]

NextLoop ==
    \/ LoopEnter
    \/ LoopIteration
    \/ LoopExit

SpecLoop == InitLoop /\ [][NextLoop]_vars

\* the coroutine of send_long is resumed after each of its awaits: a step that is
\* possible is taken
SpecLoopFair == SpecLoop /\ WF_vars(NextLoop)

----------------------------------------------------------------------------
(* Claims checked under SpecLoopFair *)

\* the characters of a text that are no whitespace
NoSpace(s) == SelectSeq(s, LAMBDA tok : tok \notin Spaces)

\* what a text holds, whitespace apart: the number of its characters, and each of
\* its digits with the number of characters before it
Content(s) ==
    LET c == NoSpace(s)
    IN  [total |-> StrLen(c),
         marks |-> {<<c[j], StrLen(SubSeq(c, 1, j - 1))>> : j \in {i \in DOMAIN c : c[i] \in Digits}}]

RECURSIVE SentText(_)
\* the texts of the messages, one after the other
SentText(sent) == IF sent = <<>> THEN <<>> ELSE Head(sent).text \o SentText(Tail(sent))

\* C40: send_long terminates for every text: each iteration of the loop makes the
\* rest of the text strictly shorter; every message sent is not empty and at most
\* 3900 characters long; the messages and the rest hold the
\* characters of the sanitized text in their order, whitespace apart; reply_markup
\* goes with the first message sent and with no other; and the messages are those
\* of the function computed in one piece
C40_SendLongTerminates ==
    /\ [][(last.op = "loop" /\ last'.op = "loop") =>
            StrLen(last'.t) < StrLen(last.t)]_vars
    /\ [](\A k \in DOMAIN last.sent :
            /\ last.sent[k].text # <<>>
            /\ StrLen(last.sent[k].text) > 0
            /\ StrLen(last.sent[k].text) <= SEND_LIMIT
            /\ last.sent[k].markup = (k = 1))
    /\ [](last.op = "loop" => last.first = (last.sent = <<>>))
    /\ [](last.op # "call" =>
            Content(SentText(last.sent) \o last.t) = Content(last.clean))
    /\ [](last.op = "done" => last.sent = send_long(last.text))
    /\ <>(last.op = "done")

\* a text that starts with a line break once sanitized took three iterations, the
\* first of which sent nothing, and three messages were sent
C40_Witness ==
    /\ last.op = "done"
    /\ last.iterations = 3
    /\ Len(last.sent) = 3
    /\ Head(last.clean) = "\n"
    /\ StrLen(last.sent[1].text) = SEND_LIMIT

====
